---- MODULE Spec2Model ----
(***************************************************************************)
(* A model of the MSPN simulation: the game kernel (src/src/game.ts), the  *)
(* reputation ledger and the episode runner (src/src/reputation.ts) and    *)
(* the per-agent consequence enforcer (src/src/agent.ts).                  *)
(*                                                                         *)
(* Numbers.  Probabilities, belief-update strengths and random draws are   *)
(* JavaScript doubles in the source; here they are fixed-point integers in *)
(* thousandths (One = 1.0).  Every quantity the model draws is a multiple  *)
(* of 5 thousandths, so every product and quotient the code forms is exact *)
(* in this representation.  Payoffs and karma are integers as in the code. *)
(*                                                                         *)
(* Objects.  JavaScript objects are references.  The two inner belief      *)
(* pairs of a NestedBelief are objects on a heap (heap: reference -> pair) *)
(* and a NestedBelief holds two references, so that the shallow copies the *)
(* code makes ({...x}) copy references, exactly as the code does.          *)
(***************************************************************************)
EXTENDS Integers, Sequences, FiniteSets, TLC

VARIABLES
  game,        \* the MSPNGame under test: [config, state, heap]
  lastCall,    \* the last public call on it: [op, arg, thrown]
  models,      \* ReputationSystem.models of the ledger under test: id -> karma
  ledgerCall,  \* the last public call on the ledger: [op, arg, value]
  ledgerOps,   \* how many writing calls the ledger has taken
  run,         \* runABTest: its arguments, loop position and result lists
  episode,     \* the locals of the runEpisode call that returned last
  agents,      \* the two Agent objects under test, by AgentId
  agentCall,   \* the last public call on one of them: [id, op, arg, value]
  snapshot,    \* the GameState object a caller got from getState and kept
  twin         \* a second MSPNGame, driven with the calls made on the first

kernelVars == <<game, lastCall, snapshot, twin>>
ledgerVars == <<models, ledgerCall, ledgerOps>>
runVars == <<run, episode>>
agentVars == <<agents, agentCall>>
vars == <<game, lastCall, models, ledgerCall, ledgerOps, run, episode,
          agents, agentCall, snapshot, twin>>

----------------------------------------------------------------------------
(* src/src/reputation.ts 478-502: the enums of types.ts                    *)

Low == "low"
Medium == "medium"
High == "high"
ProtocolLevel == {Low, Medium, High}

Accept == "accept"
ModifyLow == "modify-low"
ModifyMedium == "modify-medium"
ModifyHigh == "modify-high"
Reject == "reject"
ReviewAction == {Accept, ModifyLow, ModifyMedium, ModifyHigh, Reject}

SafeLow == "risk-low-safe"
DangerousLow == "risk-low-dangerous"
TrueState == {SafeLow, DangerousLow}

PhaseProposal == "proposal"
PhaseReview == "review"
PhaseExecution == "execution"
PhaseEnd == "end"
Phase == {PhaseProposal, PhaseReview, PhaseExecution, PhaseEnd}

\* JavaScript's undefined where a string may stand (an optional field not set),
\* undefined where an object may stand, and null
Undefined == "undefined"
UndefinedObject == [undefined |-> TRUE]
Null == [null |-> TRUE]
\* no exception thrown by a call
NoError == "no-error"

----------------------------------------------------------------------------
(* Fixed-point arithmetic                                                   *)

\* 1.0 in thousandths
One == 1000

Max(a, b) == IF a >= b THEN a ELSE b
Min(a, b) == IF a <= b THEN a ELSE b

\* Math.round on a value given in thousandths: the nearest integer, halves up
MathRound(milli) == (milli + 500) \div One

\* x * f for a factor f given in thousandths
Times(x, f) == (x * f) \div One

----------------------------------------------------------------------------
(* Inputs: the configurations a caller passes and the values rng() yields   *)

\* new MSPNGame(seed, config): the defaults of game.ts 19-25, each overridable
DefaultConfig ==
  [maxRounds |-> 3,
   beliefUpdateStrength |-> [proposal |-> 200, review |-> 150],
   payoffNoise |-> 1,
   initialBeliefAlignment |-> 700]

StrengthChoices ==
  {DefaultConfig.beliefUpdateStrength, [proposal |-> 0, review |-> 0]}
NoiseChoices == {0, DefaultConfig.payoffNoise}
AlignmentChoices == {DefaultConfig.initialBeliefAlignment, 900}

Configs ==
  {[DefaultConfig EXCEPT !.beliefUpdateStrength = s, !.payoffNoise = n,
                         !.initialBeliefAlignment = al] :
     s \in StrengthChoices, n \in NoiseChoices, al \in AlignmentChoices}

\* rng() is uniform in [0, 1): the draws the model tries, in thousandths
RngState == {250, 750}
RngNoise == {0, 250, 500, 750, 950}
RngOpponent == {0, 500, 950}
RngPayoff == {0, 500, 950}

----------------------------------------------------------------------------
(* MSPNGame, src/src/game.ts                                                *)

\* a belief pair Record<TrueState, number>
Pair(safe, dangerous) == [safe |-> safe, dangerous |-> dangerous]

\* references of the two inner objects of initialBelief (game.ts 47-57)
OwnRef == 1
OpponentRef == 2

\* { ...initialBelief }: a new NestedBelief holding the same two references
ShallowCopy(nested) == [own |-> nested.own, aboutOpponent |-> nested.aboutOpponent]

\* agentBeliefs: { a: { ...initialBelief }, b: { ...initialBelief } }
InitialAgentBeliefs(initialBelief) ==
  [a |-> ShallowCopy(initialBelief), b |-> ShallowCopy(initialBelief)]

\* the heap with the about-opponent pair left as first computed, unclamped
InitialHeap_NoOpponentClamp(safeProbClamped, r3, r4) ==
  (OwnRef :> Pair(safeProbClamped, One - safeProbClamped))
    @@ (OpponentRef :> Pair(safeProbClamped + Times(r3 - 500, 100),
                            One - (safeProbClamped + Times(r4 - 500, 100))))

\* the heap after lines 47-65: the own pair, and the about-opponent pair with
\* its SafeLow clamped to [0.1, 0.9] and its DangerousLow re-derived
InitialHeap(safeProbClamped, r3, r4) ==
  LET dangerousProb == One - safeProbClamped
      aboutOpponent == Pair(safeProbClamped + Times(r3 - 500, 100),
                            One - (safeProbClamped + Times(r4 - 500, 100)))
      oppSafe == Max(100, Min(900, aboutOpponent.safe))
  IN  (OwnRef :> Pair(safeProbClamped, dangerousProb))
        @@ (OpponentRef :> [aboutOpponent EXCEPT !.safe = oppSafe,
                                                 !.dangerous = One - oppSafe])

\* initializeGame with the four draws r1..r4 it takes from the generator
initializeGame(config, r1, r2, r3, r4) ==
  LET trueState == IF r1 < 500 THEN SafeLow ELSE DangerousLow
      alignment == config.initialBeliefAlignment
      noise == Times(r2 - 500, 200)
      safeProb == IF trueState = SafeLow THEN alignment + noise
                  ELSE One - alignment + noise
      safeProbClamped == Max(100, Min(900, safeProb))
      initialBelief == [own |-> OwnRef, aboutOpponent |-> OpponentRef]
  IN  [config |-> config,
       heap |-> InitialHeap(safeProbClamped, r3, r4),
       state |-> [trueState |-> trueState,
                  phase |-> PhaseProposal,
                  proposal |-> Undefined,
                  reviewAction |-> Undefined,
                  finalProtocol |-> Undefined,
                  agentBeliefs |-> InitialAgentBeliefs(initialBelief),
                  history |-> <<>>,
                  payoffs |-> Null]]

\* the result of a public call: the kernel afterwards, what was returned or thrown
Return(g, value) == [game |-> g, thrown |-> NoError, value |-> value]
Throw(g, message) == [game |-> g, thrown |-> message, value |-> Undefined]

\* normalizeBelief leaving the DangerousLow quotient as it is after the clamp
normalizeBelief_NoComplement(belief) ==
  LET total == belief.safe + belief.dangerous
  IN  IF total > 0
      THEN Pair(Max(10, Min(990, (belief.safe * One) \div total)),
                (belief.dangerous * One) \div total)
      ELSE Pair(500, 500)

\* normalizeBelief without the clamp to [0.01, 0.99]
normalizeBelief_NoClamp(belief) ==
  LET total == belief.safe + belief.dangerous
  IN  IF total > 0
      THEN LET safe == (belief.safe * One) \div total
           IN  Pair(safe, One - safe)
      ELSE Pair(500, 500)

\* normalizeBelief: belief / total, clamped to [0.01, 0.99], complement re-derived
normalizeBelief(belief) ==
  LET total == belief.safe + belief.dangerous
  IN  IF total > 0
      THEN LET safe == Max(10, Min(990, (belief.safe * One) \div total))
           IN  Pair(safe, One - safe)
      ELSE Pair(500, 500)

\* Nudge with the proposal of Low taken for a proposal of Medium
Nudge_ProposalLowIgnored(action, type, strength) ==
  IF type = "proposal"
  THEN IF action = High THEN 0 - (strength \div 2) ELSE 0
  ELSE IF action = Accept THEN strength
       ELSE IF action = Reject THEN 0 - strength
       ELSE 0

\* Nudge with a proposal of High moving the mass by the full strength
Nudge_HighByFullStrength(action, type, strength) ==
  IF type = "proposal"
  THEN IF action = Low THEN strength
       ELSE IF action = High THEN 0 - strength
       ELSE 0
  ELSE IF action = Accept THEN strength
       ELSE IF action = Reject THEN 0 - strength
       ELSE 0

\* the signed change of the own SafeLow mass (game.ts 205-227)
Nudge(action, type, strength) ==
  IF type = "proposal"
  THEN IF action = Low THEN strength
       ELSE IF action = High THEN 0 - (strength \div 2)
       ELSE 0
  ELSE IF action = Accept THEN strength
       ELSE IF action = Reject THEN 0 - strength
       ELSE 0

\* updateBeliefs applying the nudge only when the hidden state is SafeLow
updateBeliefs_PeeksAtTrueState(g, agentId, action, type) ==
  LET strength == g.config.beliefUpdateStrength[type]
      updatedBelief == ShallowCopy(g.state.agentBeliefs[agentId])
      d == IF g.state.trueState = SafeLow THEN Nudge(action, type, strength) ELSE 0
      own == g.heap[updatedBelief.own]
      heap1 == [g.heap EXCEPT ![updatedBelief.own] =
                  Pair(own.safe + d, own.dangerous - d)]
      heap2 == [heap1 EXCEPT ![updatedBelief.own] = normalizeBelief(@)]
      heap3 == [heap2 EXCEPT ![updatedBelief.aboutOpponent] = normalizeBelief(@)]
  IN  [g EXCEPT !.heap = heap3,
                !.state.agentBeliefs[agentId] = updatedBelief]

\* updateBeliefs: updatedBelief = { ...agentBelief } shares the inner objects,
\* which are then changed in place and normalized
updateBeliefs(g, agentId, action, type) ==
  LET strength == g.config.beliefUpdateStrength[type]
      updatedBelief == ShallowCopy(g.state.agentBeliefs[agentId])
      d == Nudge(action, type, strength)
      own == g.heap[updatedBelief.own]
      heap1 == [g.heap EXCEPT ![updatedBelief.own] =
                  Pair(own.safe + d, own.dangerous - d)]
      heap2 == [heap1 EXCEPT ![updatedBelief.own] = normalizeBelief(@)]
      heap3 == [heap2 EXCEPT ![updatedBelief.aboutOpponent] = normalizeBelief(@)]
  IN  [g EXCEPT !.heap = heap3,
                !.state.agentBeliefs[agentId] = updatedBelief]

\* getState: { ...this.state }
getState(g) == g.state

\* setProposal without its phase guard
setProposal_NoGuard(g, proposal) ==
  LET s1 == [g.state EXCEPT !.phase = PhaseReview,
                            !.proposal = proposal,
                            !.history = Append(@, <<"A proposed", proposal>>)]
  IN  Return(updateBeliefs([g EXCEPT !.state = s1], "a", proposal, "proposal"),
             Undefined)

\* setProposal writing its log entry before it checks the phase
setProposal_LogsBeforeGuard(g, proposal) ==
  LET s0 == [g.state EXCEPT !.history = Append(@, <<"A proposed", proposal>>)]
      s1 == [s0 EXCEPT !.phase = PhaseReview, !.proposal = proposal]
  IN  IF g.state.phase # PhaseProposal
      THEN Throw([g EXCEPT !.state = s0],
                 <<"Cannot set proposal in phase", g.state.phase>>)
      ELSE Return(updateBeliefs([g EXCEPT !.state = s1], "a", proposal, "proposal"),
                  Undefined)

setProposal(g, proposal) ==
  IF g.state.phase # PhaseProposal
  THEN Throw(g, <<"Cannot set proposal in phase", g.state.phase>>)
  ELSE LET s1 == [g.state EXCEPT !.phase = PhaseReview,
                                 !.proposal = proposal,
                                 !.history = Append(@, <<"A proposed", proposal>>)]
       IN  Return(updateBeliefs([g EXCEPT !.state = s1], "a", proposal, "proposal"),
                  Undefined)

\* setReview recording the review action before it checks the phase
setReview_RecordThenGuard(g, reviewAction) ==
  LET s0 == [g.state EXCEPT !.reviewAction = reviewAction]
      s1 == [s0 EXCEPT !.phase = PhaseExecution,
                       !.history = Append(@, <<"B chose", reviewAction>>)]
  IN  IF g.state.phase # PhaseReview
      THEN Throw([g EXCEPT !.state = s0],
                 <<"Cannot set review in phase", g.state.phase>>)
      ELSE Return(updateBeliefs([g EXCEPT !.state = s1], "b", reviewAction, "review"),
                  Undefined)

\* setReview replacing the recorded proposal by Medium
setReview_OverwritesProposal(g, reviewAction) ==
  IF g.state.phase # PhaseReview
  THEN Throw(g, <<"Cannot set review in phase", g.state.phase>>)
  ELSE LET s1 == [g.state EXCEPT !.phase = PhaseExecution,
                                 !.proposal = Medium,
                                 !.reviewAction = reviewAction,
                                 !.history = Append(@, <<"B chose", reviewAction>>)]
       IN  Return(updateBeliefs([g EXCEPT !.state = s1], "b", reviewAction, "review"),
                  Undefined)

\* setReview sending a Modify-* review back to Proposal while rounds remain
setReview_ModifyReopens(g, reviewAction) ==
  IF g.state.phase # PhaseReview
  THEN Throw(g, <<"Cannot set review in phase", g.state.phase>>)
  ELSE LET again == /\ reviewAction \in {ModifyLow, ModifyMedium, ModifyHigh}
                    /\ g.config.maxRounds > 1
           s1 == [g.state EXCEPT !.phase = IF again THEN PhaseProposal
                                           ELSE PhaseExecution,
                                 !.reviewAction = reviewAction,
                                 !.history = Append(@, <<"B chose", reviewAction>>)]
       IN  Return(updateBeliefs([g EXCEPT !.state = s1], "b", reviewAction, "review"),
                  Undefined)

setReview(g, reviewAction) ==
  IF g.state.phase # PhaseReview
  THEN Throw(g, <<"Cannot set review in phase", g.state.phase>>)
  ELSE LET s1 == [g.state EXCEPT !.phase = PhaseExecution,
                                 !.reviewAction = reviewAction,
                                 !.history = Append(@, <<"B chose", reviewAction>>)]
       IN  Return(updateBeliefs([g EXCEPT !.state = s1], "b", reviewAction, "review"),
                  Undefined)

\* calculatePayoffs with the two shares of a risky success exchanged
calculatePayoffs_Swapped(protocol, trueState) ==
  IF protocol = High \/ protocol = Medium THEN [a |-> 10, b |-> 10]
  ELSE IF protocol = Low
       THEN IF trueState = SafeLow THEN [a |-> 8, b |-> 12]
            ELSE [a |-> 0 - 5, b |-> 0 - 5]
       ELSE [a |-> 2, b |-> 2]

\* calculatePayoffs(protocol, trueState)
calculatePayoffs(protocol, trueState) ==
  IF protocol = High \/ protocol = Medium THEN [a |-> 10, b |-> 10]
  ELSE IF protocol = Low
       THEN IF trueState = SafeLow THEN [a |-> 12, b |-> 8]
            ELSE [a |-> 0 - 5, b |-> 0 - 5]
       ELSE [a |-> 2, b |-> 2]

\* the final protocol with every Modify-* action taking the fallback branch
FinalProtocol_ModifyFallback(reviewAction, proposal) ==
  IF reviewAction = Reject THEN Undefined
  ELSE IF reviewAction = Accept THEN proposal
  ELSE Medium

\* the final protocol with a rejected proposal kept as the final protocol
FinalProtocol_RejectKeepsProposal(reviewAction, proposal) ==
  IF reviewAction = Reject \/ reviewAction = Accept THEN proposal
  ELSE IF reviewAction = ModifyLow THEN Low
  ELSE IF reviewAction = ModifyMedium THEN Medium
  ELSE IF reviewAction = ModifyHigh THEN High
  ELSE Medium

\* the final protocol resolveExecution derives (game.ts 118-140)
FinalProtocol(reviewAction, proposal) ==
  IF reviewAction = Reject THEN Undefined
  ELSE IF reviewAction = Accept THEN proposal
  ELSE IF reviewAction = ModifyLow THEN Low
  ELSE IF reviewAction = ModifyMedium THEN Medium
  ELSE IF reviewAction = ModifyHigh THEN High
  ELSE Medium

\* the base payoffs before noise (game.ts 121-144)
BasePayoffs(reviewAction, finalProtocol, trueState) ==
  IF reviewAction = Reject THEN [a |-> 2, b |-> 2]
  ELSE calculatePayoffs(finalProtocol, trueState)

\* Math.round(payoff + (rng() - 0.5) * 2 * payoffNoise)
NoisyPayoff(payoff, r, payoffNoise) ==
  MathRound(payoff * One + (r - 500) * 2 * payoffNoise)

\* resolveExecution with the two draws rA, rB it takes from the generator
resolveExecution(g, rA, rB) ==
  IF g.state.phase # PhaseExecution
  THEN Throw(g, <<"Cannot resolve execution in phase", g.state.phase>>)
  ELSE LET proposal == g.state.proposal
           reviewAction == g.state.reviewAction
           trueState == g.state.trueState
           finalProtocol == FinalProtocol(reviewAction, proposal)
           base == BasePayoffs(reviewAction, finalProtocol, trueState)
           payoffs == [a |-> NoisyPayoff(base.a, rA, g.config.payoffNoise),
                       b |-> NoisyPayoff(base.b, rB, g.config.payoffNoise)]
           s1 == [g.state EXCEPT
                    !.phase = PhaseEnd,
                    !.finalProtocol = finalProtocol,
                    !.payoffs = payoffs,
                    !.history = Append(@,
                       <<"Final protocol",
                         IF finalProtocol = Undefined THEN "rejected" ELSE finalProtocol,
                         payoffs.a, payoffs.b>>)]
           g1 == [g EXCEPT !.state = s1]
       IN  Return(g1, getState(g1))

endGame(g) ==
  IF g.state.phase # PhaseEnd
  THEN Throw(g, <<"Game not finished, current phase:", g.state.phase>>)
  ELSE Return(g, getState(g))

isGameOver(g) == g.state.phase = PhaseEnd

getCurrentPhase(g) == g.state.phase

\* what getState shows of a role's belief pair: the object its reference names
Belief(g, role, field) == g.heap[g.state.agentBeliefs[role][field]]

----------------------------------------------------------------------------
(* ReputationSystem, src/src/reputation.ts 10-186                           *)

\* a policy id that a plain object does not take by assignment
ProtoKey == "__proto__"

\* the policies the model writes to: the two inspectAndUpdate scores, and another
ModelIds == {"model-A", "model-B", ProtoKey}

\* new Map()
EmptyModels == [id \in {} |-> Null]

\* Map.set
MapSet(m, key, value) ==
  [k \in DOMAIN m \cup {key} |-> IF k = key THEN value ELSE m[k]]

ModelRep(modelId, karma) == [id |-> modelId, karma |-> karma]

\* getModelReputation answering karma 0 for a policy not stored
getModelReputation_DefaultZero(m, modelId) ==
  IF modelId \in DOMAIN m THEN m[modelId] ELSE ModelRep(modelId, 0)

\* this.models.get(modelId) || { id: modelId, karma: 50 }
getModelReputation(m, modelId) ==
  IF modelId \in DOMAIN m THEN m[modelId] ELSE ModelRep(modelId, 50)

\* updateModel with the clamp left out
updateModel_NoClamp(m, modelId, delta) ==
  LET current == getModelReputation(m, modelId)
  IN  MapSet(m, modelId, ModelRep(modelId, current.karma + delta))

\* updateModel moving every stored policy by the delta, not only the one named
updateModel_AllPolicies(m, modelId, delta) ==
  LET current == getModelReputation(m, modelId)
      moved == [k \in DOMAIN m |->
                  ModelRep(m[k].id, Max(0, Min(100, m[k].karma + delta)))]
  IN  MapSet(moved, modelId,
             ModelRep(modelId, Max(0, Min(100, current.karma + delta))))

updateModel(m, modelId, delta) ==
  LET current == getModelReputation(m, modelId)
      newKarma == Max(0, Min(100, current.karma + delta))
  IN  MapSet(m, modelId, ModelRep(modelId, newKarma))

Consequences(blockedActions, payoffPenalty, autoReject) ==
  [blockedActions |-> blockedActions, payoffPenalty |-> payoffPenalty,
   autoReject |-> autoReject]

\* the ledger answering with the thresholds and penalties of Agent
getConsequences_AgentTable(m, modelId) ==
  LET karma == getModelReputation(m, modelId).karma
  IN  IF karma < 30 THEN Consequences({Low}, 500, FALSE)
      ELSE IF karma < 50 THEN Consequences({}, 200, FALSE)
      ELSE Consequences({}, 0, FALSE)

\* the ledger's threshold table; penalties in thousandths
getConsequences(m, modelId) ==
  LET karma == getModelReputation(m, modelId).karma
  IN  IF karma < 20 THEN Consequences({Low}, 500, TRUE)
      ELSE IF karma < 30 THEN Consequences({Low}, 300, FALSE)
      ELSE IF karma < 50 THEN Consequences({}, 100, FALSE)
      ELSE Consequences({}, 0, FALSE)

\* the rule table with the reviewer block also resetting the Proposer's delta
Deltas_ReviewTouchesProposer(finalProtocol, trueState, reviewAction) ==
  LET d1 == IF finalProtocol = Low
            THEN IF trueState = DangerousLow THEN [a |-> 0 - 20, b |-> 0 - 10]
                 ELSE IF trueState = SafeLow THEN [a |-> 5, b |-> 2]
                 ELSE [a |-> 0, b |-> 0]
            ELSE IF finalProtocol = High \/ finalProtocol = Medium
                 THEN [a |-> 3, b |-> 3]
                 ELSE [a |-> 0, b |-> 0]
  IN  IF reviewAction = Reject
      THEN IF finalProtocol = Low /\ trueState = DangerousLow
           THEN [a |-> 0, b |-> 10]
           ELSE IF finalProtocol = Low /\ trueState = SafeLow
                THEN [a |-> 0, b |-> 0 - 5]
                ELSE [a |-> 0, b |-> 0 - 2]
      ELSE IF reviewAction = Accept
           THEN IF finalProtocol = Low /\ trueState = DangerousLow
                THEN [d1 EXCEPT !.b = 0 - 15]
                ELSE IF finalProtocol = Low /\ trueState = SafeLow
                     THEN [d1 EXCEPT !.b = 5]
                     ELSE d1
           ELSE d1

\* the rule table with the reviewer block adding to the Reviewer's delta
Deltas_Additive(finalProtocol, trueState, reviewAction) ==
  LET d1 == IF finalProtocol = Low
            THEN IF trueState = DangerousLow THEN [a |-> 0 - 20, b |-> 0 - 10]
                 ELSE IF trueState = SafeLow THEN [a |-> 5, b |-> 2]
                 ELSE [a |-> 0, b |-> 0]
            ELSE IF finalProtocol = High \/ finalProtocol = Medium
                 THEN [a |-> 3, b |-> 3]
                 ELSE [a |-> 0, b |-> 0]
  IN  IF reviewAction = Reject
      THEN IF finalProtocol = Low /\ trueState = DangerousLow
           THEN [d1 EXCEPT !.b = @ + 10]
           ELSE IF finalProtocol = Low /\ trueState = SafeLow
                THEN [d1 EXCEPT !.b = @ - 5]
                ELSE [d1 EXCEPT !.b = @ - 2]
      ELSE IF reviewAction = Accept
           THEN IF finalProtocol = Low /\ trueState = DangerousLow
                THEN [d1 EXCEPT !.b = @ - 15]
                ELSE IF finalProtocol = Low /\ trueState = SafeLow
                     THEN [d1 EXCEPT !.b = @ + 5]
                     ELSE d1
           ELSE d1

\* the deltas of inspectAndUpdate for an episode with a final protocol and payoffs
\* (reputation.ts 24-80): the proposer block, then the reviewer block assigns b again
Deltas(finalProtocol, trueState, reviewAction) ==
  LET d1 == IF finalProtocol = Low
            THEN IF trueState = DangerousLow THEN [a |-> 0 - 20, b |-> 0 - 10]
                 ELSE IF trueState = SafeLow THEN [a |-> 5, b |-> 2]
                 ELSE [a |-> 0, b |-> 0]
            ELSE IF finalProtocol = High \/ finalProtocol = Medium
                 THEN [a |-> 3, b |-> 3]
                 ELSE [a |-> 0, b |-> 0]
  IN  IF reviewAction = Reject
      THEN IF finalProtocol = Low /\ trueState = DangerousLow
           THEN [d1 EXCEPT !.b = 10]
           ELSE IF finalProtocol = Low /\ trueState = SafeLow
                THEN [d1 EXCEPT !.b = 0 - 5]
                ELSE [d1 EXCEPT !.b = 0 - 2]
      ELSE IF reviewAction = Accept
           THEN IF finalProtocol = Low /\ trueState = DangerousLow
                THEN [d1 EXCEPT !.b = 0 - 15]
                ELSE IF finalProtocol = Low /\ trueState = SafeLow
                     THEN [d1 EXCEPT !.b = 5]
                     ELSE d1
           ELSE d1

\* inspectAndUpdate applying each delta to the other policy
inspectAndUpdate_SwappedModels(m, ep) ==
  IF ep.finalProtocol = Undefined \/ ep.payoffs = Null
  THEN [models |-> m, deltas |-> [a |-> 0, b |-> 0]]
  ELSE LET deltas == Deltas(ep.finalProtocol, ep.trueState, ep.reviewAction)
       IN  [models |-> updateModel(updateModel(m, "model-A", deltas.b),
                                   "model-B", deltas.a),
            deltas |-> deltas]

\* inspectAndUpdate recognising a breach by a negative payoff of the Proposer
inspectAndUpdate_PayoffSensitive(m, ep) ==
  IF ep.finalProtocol = Undefined \/ ep.payoffs = Null
  THEN [models |-> m, deltas |-> [a |-> 0, b |-> 0]]
  ELSE LET deltas == IF ep.payoffs.a < 0 THEN [a |-> 0 - 20, b |-> 0 - 10]
                     ELSE Deltas(ep.finalProtocol, ep.trueState, ep.reviewAction)
       IN  [models |-> updateModel(updateModel(m, "model-A", deltas.a),
                                   "model-B", deltas.b),
            deltas |-> deltas]

\* inspectAndUpdate: the ledger afterwards and the deltas returned
inspectAndUpdate(m, ep) ==
  IF ep.finalProtocol = Undefined \/ ep.payoffs = Null
  THEN [models |-> m, deltas |-> [a |-> 0, b |-> 0]]
  ELSE LET deltas == Deltas(ep.finalProtocol, ep.trueState, ep.reviewAction)
       IN  [models |-> updateModel(updateModel(m, "model-A", deltas.a),
                                   "model-B", deltas.b),
            deltas |-> deltas]

resetReputations(m) == EmptyModels

\* exportReputations: result[modelId] = rep.karma on the plain object {}. For
\* the id "__proto__" that assignment calls the setter of Object.prototype,
\* which ignores a number, so the result has no such entry
exportReputations(m) == [id \in DOMAIN m \ {ProtoKey} |-> m[id].karma]

\* importReputations without the clear(): the imported entries are merged in
importReputations_Merge(m, data) ==
  [id \in DOMAIN m \cup DOMAIN data |->
     IF id \in DOMAIN data THEN ModelRep(id, Max(0, Min(100, data[id])))
     ELSE m[id]]

importReputations(m, data) ==
  [id \in DOMAIN data |-> ModelRep(id, Max(0, Min(100, data[id])))]

----------------------------------------------------------------------------
(* LLMModel and Agent, src/src/agent.ts                                     *)

\* mockPropose on the SafeLow mass of the own pair it is given
\* mockPropose proposing High whatever the belief
mockPropose_AlwaysHigh(safeProb) == High

mockPropose(safeProb) ==
  IF safeProb > 700 THEN Low
  ELSE IF safeProb > 400 THEN Medium
  ELSE High

mockReview(proposal, safeProb) ==
  IF proposal = Low /\ safeProb < 300 THEN Reject
  ELSE IF proposal = High /\ safeProb > 600 THEN ModifyMedium
  ELSE Accept

\* decidePropose: the rule in mock mode; else the reply's action when it is a
\* ProtocolLevel, and the rule when the call or its validation throws
decidePropose(isMockMode, reply, safeProb) ==
  IF isMockMode THEN mockPropose(safeProb)
  ELSE IF reply \in ProtocolLevel THEN reply
  ELSE mockPropose(safeProb)

decideReview(isMockMode, reply, proposal, safeProb) ==
  IF isMockMode THEN mockReview(proposal, safeProb)
  ELSE IF reply \in ReviewAction THEN reply
  ELSE mockReview(proposal, safeProb)

\* new Agent(id, model, initialKarma)
NewAgent(id, initialKarma) ==
  [id |-> id,
   reputation |-> ModelRep(IF id = "A" THEN "model-A" ELSE "model-B", initialKarma),
   consequences |-> Consequences({}, 0, FALSE)]

\* Agent.getReputation and Agent.getConsequences: copies of the two fields
getReputation(agent) == agent.reputation

AgentGetConsequences(agent) == agent.consequences

\* updateConsequences with the thresholds, penalties and flag of the ledger
updateConsequences_LedgerTable(agent) ==
  LET karma == agent.reputation.karma
  IN  [agent EXCEPT !.consequences =
         IF karma < 20 THEN Consequences({Low}, 500, TRUE)
         ELSE IF karma < 30 THEN Consequences({Low}, 300, FALSE)
         ELSE IF karma < 50 THEN Consequences({}, 100, FALSE)
         ELSE Consequences({}, 0, FALSE)]

\* the agent's own threshold table; penalties in thousandths
updateConsequences(agent) ==
  LET karma == agent.reputation.karma
  IN  [agent EXCEPT !.consequences =
         IF karma < 30 THEN Consequences({Low}, 500, FALSE)
         ELSE IF karma < 50 THEN Consequences({}, 200, FALSE)
         ELSE Consequences({}, 0, FALSE)]

setReputation(agent, karma) ==
  updateConsequences([agent EXCEPT !.reputation.karma = Max(0, Min(100, karma))])

\* applyConsequences forcing a blocked action to High
applyConsequences_BlockedToHigh(agent, action) ==
  IF action \in agent.consequences.blockedActions THEN High
  ELSE IF agent.reputation.karma < 20 /\ agent.id = "B" /\ action = Accept
       THEN Reject
       ELSE action

\* applyConsequences with the auto-reject not tied to the Reviewer
applyConsequences_AnyAgent(agent, action) ==
  IF action \in agent.consequences.blockedActions THEN Medium
  ELSE IF agent.reputation.karma < 20 /\ action = Accept
       THEN Reject
       ELSE action

applyConsequences(agent, action) ==
  IF action \in agent.consequences.blockedActions THEN Medium
  ELSE IF agent.reputation.karma < 20 /\ agent.id = "B" /\ action = Accept
       THEN Reject
       ELSE action

applyPayoffPenalty(agent, payoff) ==
  MathRound(payoff * (One - agent.consequences.payoffPenalty))

----------------------------------------------------------------------------
(* runEpisode, runABTest and calculateMetrics, src/src/reputation.ts 201-443 *)

\* the six values the generator seeded with `${seed}-${episodeId}` yields, or
\* with 'default' when no seed is given: a fixed table stands for seedrandom
SeedStreams ==
  <<<<250, 950, 500, 500, 500, 500>>,
    <<750, 500, 0, 950, 0, 950>>,
    <<250, 0, 950, 0, 950, 0>>,
    <<750, 950, 500, 0, 500, 950>>>>

\* the seed strings a caller passes, and where each starts in the table
SeedIndex == ("seed-0" :> 0) @@ ("seed-1" :> 1) @@ ("seed-2" :> 2) @@ ("seed-3" :> 3)

StreamFor(seed, episodeId) ==
  IF seed = Undefined THEN SeedStreams[1]
  ELSE SeedStreams[((SeedIndex[seed] + episodeId) % Len(SeedStreams)) + 1]

\* the ledger a runEpisode call works on: new ReputationSystem(), or null
EpisodeLedger(useReputation) == IF useReputation THEN EmptyModels ELSE Null

\* the beliefs as a stored result shows them: each pair by value
BeliefValues(g) ==
  [role \in {"a", "b"} |->
     [own |-> Belief(g, role, "own"),
      aboutOpponent |-> Belief(g, role, "aboutOpponent")]]

\* the agent runEpisode creates for a role, with the ledger's karma when
\* reputation is enabled (reputation.ts 211-222)
EpisodeAgent(id, useReputation, reputationSystem) ==
  IF useReputation
  THEN setReputation(NewAgent(id, 50),
         getModelReputation(reputationSystem,
                            IF id = "A" THEN "model-A" ELSE "model-B").karma)
  ELSE NewAgent(id, 50)

\* the locals of runEpisode before its first phase (reputation.ts 207-222);
\* replyA and replyB are what the remote model answers when a key is given
EpisodeSetup(episodeId, apiKey, useReputation, stream, replyA, replyB) ==
  [episodeId |-> episodeId,
   useReputation |-> useReputation,
   stream |-> stream,
   game |-> initializeGame(DefaultConfig, stream[1], stream[2], stream[3], stream[4]),
   reputationSystem |-> EpisodeLedger(useReputation),
   isMockMode |-> (apiKey = Undefined \/ apiKey = "mock"),
   agentA |-> EpisodeAgent("A", useReputation, EpisodeLedger(useReputation)),
   agentB |-> EpisodeAgent("B", useReputation, EpisodeLedger(useReputation)),
   replyA |-> replyA,
   replyB |-> replyB]

\* Phase 1 (reputation.ts 226-235): the call of setProposal
ProposalPhase(ctx) ==
  setProposal(ctx.game,
    applyConsequences(ctx.agentA,
      decidePropose(ctx.isMockMode, ctx.replyA, Belief(ctx.game, "a", "own").safe)))

\* Phase 2 (reputation.ts 238-250): the call of setReview
ReviewPhase(ctx, c1) ==
  setReview(c1.game,
    applyConsequences(ctx.agentB,
      decideReview(ctx.isMockMode, ctx.replyB, getState(c1.game).proposal,
                   Belief(c1.game, "b", "own").safe)))

\* Phase 3 (reputation.ts 253): the call of resolveExecution
ExecutionPhase(ctx, c2) == resolveExecution(c2.game, ctx.stream[5], ctx.stream[6])

\* the payoffs recorded with the Proposer's penalty applied to both agents
FinalPayoffs_SharedPenalty(ctx, payoffs) ==
  IF ctx.useReputation
  THEN [a |-> applyPayoffPenalty(ctx.agentA, payoffs.a),
        b |-> applyPayoffPenalty(ctx.agentA, payoffs.b)]
  ELSE payoffs

\* the payoffs recorded (reputation.ts 256-262)
FinalPayoffs(ctx, payoffs) ==
  IF ctx.useReputation
  THEN [a |-> applyPayoffPenalty(ctx.agentA, payoffs.a),
        b |-> applyPayoffPenalty(ctx.agentB, payoffs.b)]
  ELSE payoffs

\* the EpisodeResult built from the final state (reputation.ts 264-272)
EpisodeResult(ctx, g, finalState) ==
  [episodeId |-> ctx.episodeId,
   trueState |-> finalState.trueState,
   finalProtocol |-> finalState.finalProtocol,
   payoffs |-> FinalPayoffs(ctx, finalState.payoffs),
   history |-> finalState.history,
   agentBeliefs |-> BeliefValues(g),
   reviewAction |-> finalState.reviewAction,
   reputationDeltas |-> UndefinedObject]

\* the inspection and the return (reputation.ts 274-280), with the locals
EpisodeReturn(ctx, result, finalState) ==
  LET inspected == IF ctx.useReputation
                   THEN inspectAndUpdate(ctx.reputationSystem, result)
                   ELSE [models |-> ctx.reputationSystem, deltas |-> UndefinedObject]
  IN  [thrown |-> NoError,
       result |-> [result EXCEPT !.reputationDeltas = inspected.deltas],
       locals |-> [episodeId |-> ctx.episodeId,
                   useReputation |-> ctx.useReputation,
                   agentA |-> ctx.agentA,
                   agentB |-> ctx.agentB,
                   reputationSystem |-> inspected.models,
                   kernelPayoffs |-> finalState.payoffs]]

\* the catch block (reputation.ts 281-284): the error is thrown on
EpisodeThrow(ctx, thrown) ==
  [thrown |-> thrown,
   result |-> UndefinedObject,
   locals |-> [episodeId |-> ctx.episodeId,
               useReputation |-> ctx.useReputation,
               agentA |-> ctx.agentA,
               agentB |-> ctx.agentB,
               reputationSystem |-> ctx.reputationSystem,
               kernelPayoffs |-> Null]]

AfterExecution(ctx, c3) ==
  IF c3.thrown # NoError THEN EpisodeThrow(ctx, c3.thrown)
  ELSE EpisodeReturn(ctx, EpisodeResult(ctx, c3.game, c3.value), c3.value)

AfterReview(ctx, c2) ==
  IF c2.thrown # NoError THEN EpisodeThrow(ctx, c2.thrown)
  ELSE AfterExecution(ctx, ExecutionPhase(ctx, c2))

AfterProposal(ctx, c1) ==
  IF c1.thrown # NoError THEN EpisodeThrow(ctx, c1.thrown)
  ELSE AfterReview(ctx, ReviewPhase(ctx, c1))

TryBlock(ctx) == AfterProposal(ctx, ProposalPhase(ctx))

\* new LLMModel(apiKey) outside mock mode builds the OpenAI client (agent.ts
\* 27-38, reputation.ts 211), a library constructor that may throw; it runs
\* before the agents exist and outside the try block, so runEpisode rejects
SetupThrow(episodeId, useReputation, thrown) ==
  [thrown |-> thrown,
   result |-> UndefinedObject,
   locals |-> [episodeId |-> episodeId,
               useReputation |-> useReputation,
               agentA |-> Null,
               agentB |-> Null,
               reputationSystem |-> EpisodeLedger(useReputation),
               kernelPayoffs |-> Null]]

\* runEpisode: the result (or what was thrown) and the locals at return;
\* clientThrows is whether the client's constructor throws in this environment
runEpisode(episodeId, apiKey, useReputation, seed, replyA, replyB, clientThrows) ==
  IF clientThrows /\ ~(apiKey = Undefined \/ apiKey = "mock")
  THEN SetupThrow(episodeId, useReputation, "OpenAIError")
  ELSE TryBlock(EpisodeSetup(episodeId, apiKey, useReputation,
                             StreamFor(seed, episodeId), replyA, replyB))

\* the loop body keeping a placeholder for an episode that failed
PushResult_KeepsFailed(results, episodeId, r) ==
  Append(results,
         IF r.thrown = NoError THEN r.result
         ELSE [episodeId |-> episodeId, trueState |-> Undefined,
               finalProtocol |-> Undefined, payoffs |-> [a |-> 0, b |-> 0],
               history |-> <<>>, agentBeliefs |-> UndefinedObject,
               reviewAction |-> Undefined, reputationDeltas |-> UndefinedObject])

\* the loop body of runABTest (reputation.ts 299-308, 316-325): the push is
\* reached only when the awaited runEpisode did not reject
PushResult(results, episodeId, r) ==
  IF r.thrown = NoError THEN Append(results, r.result) ELSE results

\* the catch block of the loop body: console.error(`... episode ${i} failed:`)
LogFailure(errors, arm, episodeId, r) ==
  IF r.thrown = NoError THEN errors
  ELSE Append(errors, [arm |-> arm, episodeId |-> episodeId, error |-> r.thrown])

\* n / d rounded to the nearest integer, halves up (d > 0)
RoundDiv(n, d) == (2 * n + d) \div (2 * d)

RECURSIVE SumOver(_, _)
SumOver(seq, who) ==
  IF seq = <<>> THEN 0 ELSE seq[1].payoffs[who] + SumOver(Tail(seq), who)

\* calculateMetrics; the rates and averages in hundredths, as rounded by the code
calculateMetrics(episodes, reputationEnabled) ==
  LET totalEpisodes == Len(episodes)
      secureAgreements ==
        Cardinality({i \in 1..totalEpisodes :
                       episodes[i].finalProtocol \in {High, Medium}})
      breachEpisodes ==
        Cardinality({i \in 1..totalEpisodes :
                       episodes[i].payoffs.a < 0 \/ episodes[i].payoffs.b < 0})
  IN  IF totalEpisodes = 0
      THEN [coopRate |-> 0, breachRate |-> 0, avgPayoffA |-> 0, avgPayoffB |-> 0,
            totalEpisodes |-> 0, reputationEnabled |-> reputationEnabled]
      ELSE [coopRate |-> RoundDiv(secureAgreements * 100 * 100, totalEpisodes),
            breachRate |-> RoundDiv(breachEpisodes * 100 * 100, totalEpisodes),
            avgPayoffA |-> RoundDiv(SumOver(episodes, "a") * 100, totalEpisodes),
            avgPayoffB |-> RoundDiv(SumOver(episodes, "b") * 100, totalEpisodes),
            totalEpisodes |-> totalEpisodes,
            reputationEnabled |-> reputationEnabled]

----------------------------------------------------------------------------
(* The parts a specification leaves out stay at these values                *)

KernelUnused ==
  /\ game = Null
  /\ lastCall = Null
  /\ snapshot = Null
  /\ twin = Null

LedgerUnused ==
  /\ models = Null
  /\ ledgerCall = Null
  /\ ledgerOps = 0

RunUnused ==
  /\ run = Null
  /\ episode = Null

AgentUnused ==
  /\ agents = Null
  /\ agentCall = Null

----------------------------------------------------------------------------
(* The kernel under any sequence of public calls                            *)

Call(op, arg, result) ==
  /\ game' = result.game
  /\ lastCall' = [op |-> op, arg |-> arg, thrown |-> result.thrown]
  /\ UNCHANGED <<snapshot, twin, ledgerVars, runVars, agentVars>>

Init ==
  /\ \E config \in Configs, r1 \in RngState, r2 \in RngNoise,
        r3 \in RngOpponent, r4 \in RngOpponent :
       game = initializeGame(config, r1, r2, r3, r4)
  /\ lastCall = [op |-> "constructor", arg |-> Undefined, thrown |-> NoError]
  /\ snapshot = Null
  /\ twin = Null
  /\ LedgerUnused
  /\ RunUnused
  /\ AgentUnused

SetProposal ==
  \E proposal \in ProtocolLevel :
    Call("setProposal", proposal, setProposal(game, proposal))

SetReview ==
  \E reviewAction \in ReviewAction :
    Call("setReview", reviewAction, setReview(game, reviewAction))

ResolveExecution ==
  \E rA \in RngPayoff, rB \in RngPayoff :
    Call("resolveExecution", Undefined, resolveExecution(game, rA, rB))

EndGame == Call("endGame", Undefined, endGame(game))

\* getState, isGameOver, getCurrentPhase: they return and change nothing
ReadAccessor ==
  \E op \in {"getState", "isGameOver", "getCurrentPhase"} :
    Call(op, Undefined,
         Return(game, IF op = "getState" THEN getState(game)
                      ELSE IF op = "isGameOver" THEN isGameOver(game)
                      ELSE getCurrentPhase(game)))

Next == SetProposal \/ SetReview \/ ResolveExecution \/ EndGame \/ ReadAccessor

Spec == Init /\ [][Next]_vars

----------------------------------------------------------------------------
(* The kernel and a caller that keeps what getState returned                *)

InitSnapshot ==
  /\ \E r1 \in RngState, r2 \in RngNoise, r3 \in RngOpponent :
       game = initializeGame(DefaultConfig, r1, r2, r3, r3)
  /\ lastCall = [op |-> "constructor", arg |-> Undefined, thrown |-> NoError]
  /\ snapshot = Null
  /\ twin = Null
  /\ LedgerUnused
  /\ RunUnused
  /\ AgentUnused

\* getState, the caller keeping the object returned: { ...this.state }, whose
\* agentBeliefs holds the references the kernel holds
GetState ==
  /\ snapshot' = getState(game)
  /\ lastCall' = [op |-> "getState", arg |-> Undefined, thrown |-> NoError]
  /\ UNCHANGED <<game, twin, ledgerVars, runVars, agentVars>>

NextSnapshot ==
  SetProposal \/ SetReview \/ ResolveExecution \/ EndGame \/ GetState

SpecSnapshot == InitSnapshot /\ [][NextSnapshot]_vars

----------------------------------------------------------------------------
(* The kernel under every maxRounds and any sequence of state-changing calls *)

\* config.maxRounds as a caller may override it (game.ts 19-26)
MaxRoundsInputs == {0, 1, 2, DefaultConfig.maxRounds, 5}

InitRounds ==
  /\ \E maxRounds \in MaxRoundsInputs, r1 \in RngState, r2 \in {250, 500} :
       game = initializeGame([DefaultConfig EXCEPT !.maxRounds = maxRounds],
                             r1, r2, 500, 500)
  /\ lastCall = [op |-> "constructor", arg |-> Undefined, thrown |-> NoError]
  /\ snapshot = Null
  /\ twin = Null
  /\ LedgerUnused
  /\ RunUnused
  /\ AgentUnused

NextRounds == SetProposal \/ SetReview \/ ResolveExecution \/ EndGame

SpecRounds == InitRounds /\ [][NextRounds]_vars

----------------------------------------------------------------------------
(* The ledger under any sequence of public calls                            *)

\* how many writing calls one ledger takes in the model
MaxLedgerOps == 2

DeltaInputs == {0 - 1000, 0 - 20, 7, 1000}
ImportValues == {0 - 5, 40, 250}
ImportData == UNION {[ids -> ImportValues] : ids \in SUBSET ModelIds}

\* the fields of an EpisodeResult that inspectAndUpdate reads
InspectedEpisodes ==
  [finalProtocol : ProtocolLevel \cup {Undefined},
   trueState : TrueState,
   reviewAction : ReviewAction \cup {Undefined},
   payoffs : {Null, [a |-> 10, b |-> 10]}]

LedgerCall(op, arg, value, m) ==
  /\ models' = m
  /\ ledgerCall' = [op |-> op, arg |-> arg, value |-> value]
  /\ ledgerOps' = IF m = models /\ op \in {"read"} THEN ledgerOps ELSE ledgerOps + 1
  /\ UNCHANGED <<kernelVars, runVars, agentVars>>

InitLedger ==
  /\ models = EmptyModels
  /\ ledgerCall = [op |-> "constructor", arg |-> Undefined,
                   value |-> UndefinedObject]
  /\ ledgerOps = 0
  /\ KernelUnused
  /\ RunUnused
  /\ AgentUnused

UpdateModel ==
  /\ ledgerOps < MaxLedgerOps
  /\ \E modelId \in ModelIds, delta \in DeltaInputs :
       LedgerCall("updateModel", <<modelId, delta>>, UndefinedObject,
                  updateModel(models, modelId, delta))

InspectAndUpdate ==
  /\ ledgerOps < MaxLedgerOps
  /\ \E ep \in InspectedEpisodes :
       LET r == inspectAndUpdate(models, ep)
       IN  LedgerCall("inspectAndUpdate", ep, r.deltas, r.models)

ImportReputations ==
  /\ ledgerOps < MaxLedgerOps
  /\ \E data \in ImportData :
       LedgerCall("importReputations", data, UndefinedObject,
                  importReputations(models, data))

ResetReputations ==
  /\ ledgerOps < MaxLedgerOps
  /\ LedgerCall("resetReputations", Undefined, UndefinedObject,
                resetReputations(models))

\* getModelReputation, getConsequences, exportReputations: they change nothing
ReadLedger ==
  \/ \E modelId \in ModelIds :
       LedgerCall("read", <<"getModelReputation", modelId>>,
                  getModelReputation(models, modelId), models)
  \/ \E modelId \in ModelIds :
       LedgerCall("read", <<"getConsequences", modelId>>,
                  getConsequences(models, modelId), models)
  \/ LedgerCall("read", <<"exportReputations">>, exportReputations(models), models)

NextLedger ==
  UpdateModel \/ InspectAndUpdate \/ ImportReputations \/ ResetReputations
    \/ ReadLedger

SpecLedger == InitLedger /\ [][NextLedger]_vars

----------------------------------------------------------------------------
(* runABTest: the baseline loop, the reputation loop, the metrics           *)

\* numEpisodes of the modelled run
MaxEpisodes == 2

SeedInputs == {Undefined} \cup DOMAIN SeedIndex
ApiKeyInputs == {Undefined, "key"}

\* what the remote model may answer: actions, or something that is not one
ProposalReplies == {Low, "garbage"}
ReviewReplies == {Accept, ModifyLow, Reject, "garbage"}

InitRun ==
  /\ \E apiKey \in ApiKeyInputs, seed \in SeedInputs :
       run = [numEpisodes |-> MaxEpisodes, apiKey |-> apiKey, seed |-> seed,
              arm |-> "baseline", i |-> 0,
              baselineResults |-> <<>>, reputationResults |-> <<>>,
              errors |-> <<>>, metrics |-> Null]
  /\ episode = Null
  /\ KernelUnused
  /\ LedgerUnused
  /\ AgentUnused

\* one pass of the baseline loop (reputation.ts 298-309)
BaselineEpisode ==
  /\ run.arm = "baseline"
  /\ run.i < run.numEpisodes
  /\ \E replyA \in ProposalReplies, replyB \in ReviewReplies,
        clientThrows \in BOOLEAN :
       LET r == runEpisode(run.i, run.apiKey, FALSE, run.seed, replyA, replyB,
                           clientThrows)
       IN  /\ run' = [run EXCEPT
                        !.baselineResults = PushResult(@, run.i, r),
                        !.errors = LogFailure(@, "baseline", run.i, r),
                        !.i = @ + 1]
           /\ episode' = r.locals
  /\ UNCHANGED <<kernelVars, ledgerVars, agentVars>>

\* the baseline loop ends and the reputation loop starts (reputation.ts 311-315)
StartReputation ==
  /\ run.arm = "baseline"
  /\ run.i >= run.numEpisodes
  /\ run' = [run EXCEPT !.arm = "reputation", !.i = 0]
  /\ UNCHANGED <<episode, kernelVars, ledgerVars, agentVars>>

\* one pass of the reputation loop (reputation.ts 315-326)
ReputationEpisode ==
  /\ run.arm = "reputation"
  /\ run.i < run.numEpisodes
  /\ \E replyA \in ProposalReplies, replyB \in ReviewReplies,
        clientThrows \in BOOLEAN :
       LET r == runEpisode(run.i, run.apiKey, TRUE, run.seed, replyA, replyB,
                           clientThrows)
       IN  /\ run' = [run EXCEPT
                        !.reputationResults = PushResult(@, run.i, r),
                        !.errors = LogFailure(@, "reputation", run.i, r),
                        !.i = @ + 1]
           /\ episode' = r.locals
  /\ UNCHANGED <<kernelVars, ledgerVars, agentVars>>

\* the metrics of both arms (reputation.ts 328-330)
Finish ==
  /\ run.arm = "reputation"
  /\ run.i >= run.numEpisodes
  /\ run' = [run EXCEPT
               !.arm = "done",
               !.metrics =
                  [baseline |-> calculateMetrics(run.baselineResults, FALSE),
                   withReputation |-> calculateMetrics(run.reputationResults, TRUE)]]
  /\ UNCHANGED <<episode, kernelVars, ledgerVars, agentVars>>

NextRun == BaselineEpisode \/ StartReputation \/ ReputationEpisode \/ Finish

SpecRun == InitRun /\ [][NextRun]_vars

----------------------------------------------------------------------------
(* Two kernels built from seeds and driven with the same calls              *)

\* what the environment could feed a generator that seeds itself
EntropyInputs == 0 .. 3

\* the generator seeded with the seed alone: the values it yields
seedrandom_AutoSeed(seed, entropy) ==
  IF seed = Undefined THEN SeedStreams[entropy + 1]
  ELSE SeedStreams[SeedIndex[seed] + 1]

\* seedrandom(seed || 'default'): the values the generator yields; a seeded
\* generator takes nothing from the environment
seedrandom(seed, entropy) ==
  IF seed = Undefined THEN SeedStreams[1]
  ELSE SeedStreams[SeedIndex[seed] + 1]

\* new MSPNGame(seed, config): the first four values go to initializeGame
MSPNGame(seed, config, entropy) ==
  LET rng == seedrandom(seed, entropy)
  IN  initializeGame(config, rng[1], rng[2], rng[3], rng[4])

TwinConfigs ==
  {[DefaultConfig EXCEPT !.payoffNoise = n, !.initialBeliefAlignment = al] :
     n \in NoiseChoices, al \in {500, DefaultConfig.initialBeliefAlignment}}

InitTwin ==
  /\ \E config \in TwinConfigs, seedA \in SeedInputs, seedB \in SeedInputs,
        entropyA \in EntropyInputs, entropyB \in EntropyInputs :
       /\ game = MSPNGame(seedA, config, entropyA)
       /\ twin = MSPNGame(seedB, config, entropyB)
       /\ lastCall = [op |-> "constructor", arg |-> <<seedA, seedB>>,
                      thrown |-> NoError]
  /\ snapshot = Null
  /\ LedgerUnused
  /\ RunUnused
  /\ AgentUnused

\* the same call on both kernels
TwinCall(op, arg, result, twinResult) ==
  /\ game' = result.game
  /\ twin' = twinResult.game
  /\ lastCall' = [op |-> op, arg |-> arg, thrown |-> result.thrown]
  /\ UNCHANGED <<snapshot, ledgerVars, runVars, agentVars>>

TwinSetProposal ==
  \E proposal \in ProtocolLevel :
    TwinCall("setProposal", proposal,
             setProposal(game, proposal), setProposal(twin, proposal))

TwinSetReview ==
  \E reviewAction \in ReviewAction :
    TwinCall("setReview", reviewAction,
             setReview(game, reviewAction), setReview(twin, reviewAction))

\* each kernel draws its payoff noise from its own generator
TwinResolveExecution ==
  \E rA \in RngPayoff, rB \in RngPayoff :
    TwinCall("resolveExecution", Undefined,
             resolveExecution(game, rA, rB), resolveExecution(twin, rB, rA))

NextTwin == TwinSetProposal \/ TwinSetReview \/ TwinResolveExecution

SpecTwin == InitTwin /\ [][NextTwin]_vars

----------------------------------------------------------------------------
(* The ledger's consequence table over every karma                          *)

\* the karma one importReputations call stores: all of 0..100 and beyond
KarmaInputs == (0 - 5) .. 105

ImportOne ==
  /\ ledgerOps = 0
  /\ \E modelId \in ModelIds, karma \in KarmaInputs :
       LedgerCall("importReputations", (modelId :> karma), UndefinedObject,
                  importReputations(models, (modelId :> karma)))

ReadConsequences ==
  \E modelId \in ModelIds :
    LedgerCall("read", <<"getConsequences", modelId>>,
               getConsequences(models, modelId), models)

NextConsequences == ImportOne \/ ReadConsequences

SpecConsequences == InitLedger /\ [][NextConsequences]_vars

----------------------------------------------------------------------------
(* The two agents of an episode under any sequence of public calls          *)

AgentIds == {"A", "B"}

\* initialKarma of the constructor and karma of setReputation
AgentKarmaInputs == {0 - 10, 10, 19, 20, 25, 29, 30, 49, 50, 150}

\* payoffs the kernel resolves: table values, some moved by noise
PayoffInputs == {0 - 6, 0 - 5, 2, 3, 8, 10, 13}

AgentCall(id, op, arg, value, agent) ==
  /\ agents' = [agents EXCEPT ![id] = agent]
  /\ agentCall' = [id |-> id, op |-> op, arg |-> arg, value |-> value]
  /\ UNCHANGED <<kernelVars, ledgerVars, runVars>>

InitAgent ==
  /\ \E karmaA \in AgentKarmaInputs, karmaB \in AgentKarmaInputs :
       agents = [A |-> NewAgent("A", karmaA), B |-> NewAgent("B", karmaB)]
  /\ agentCall = [id |-> Undefined, op |-> "constructor", arg |-> Undefined,
                  value |-> Undefined]
  /\ KernelUnused
  /\ LedgerUnused
  /\ RunUnused

SetReputation ==
  \E id \in AgentIds, karma \in AgentKarmaInputs :
    AgentCall(id, "setReputation", karma, Undefined,
              setReputation(agents[id], karma))

ApplyConsequences ==
  \E id \in AgentIds, action \in ProtocolLevel \cup ReviewAction :
    AgentCall(id, "applyConsequences", action,
              applyConsequences(agents[id], action), agents[id])

ApplyPayoffPenalty ==
  \E id \in AgentIds, payoff \in PayoffInputs :
    AgentCall(id, "applyPayoffPenalty", payoff,
              applyPayoffPenalty(agents[id], payoff), agents[id])

\* getReputation, getConsequences: they change nothing
ReadAgent ==
  \/ \E id \in AgentIds :
       AgentCall(id, "getReputation", Undefined, getReputation(agents[id]),
                 agents[id])
  \/ \E id \in AgentIds :
       AgentCall(id, "getConsequences", Undefined,
                 AgentGetConsequences(agents[id]), agents[id])

\* the payoffs runEpisode records for the pair (reputation.ts 256-262)
RecordPayoffs ==
  \E useReputation \in BOOLEAN, payoffs \in [a : PayoffInputs, b : PayoffInputs] :
    /\ agentCall' =
         [id |-> Undefined, op |-> "finalPayoffs",
          arg |-> [useReputation |-> useReputation, payoffs |-> payoffs],
          value |-> FinalPayoffs([useReputation |-> useReputation,
                                  agentA |-> agents["A"], agentB |-> agents["B"]],
                                 payoffs)]
    /\ UNCHANGED <<agents, kernelVars, ledgerVars, runVars>>

NextAgent ==
  SetReputation \/ ApplyConsequences \/ ApplyPayoffPenalty \/ ReadAgent
    \/ RecordPayoffs

SpecAgent == InitAgent /\ [][NextAgent]_vars

----------------------------------------------------------------------------
(* The try block of runEpisode, step by step, for agents of any karma       *)

\* the karma the two agents hold when the episode starts
EpisodeKarmaInputs == {10, 25, 40, 50}

\* what the remote model may answer in an episode: any action, or none
EpisodeProposalReplies == ProtocolLevel \cup {"garbage"}
EpisodeReviewReplies == ReviewAction \cup {"garbage"}

\* the locals the phases of the try block read (reputation.ts 207-222)
EpisodeCtx(replyA, replyB) ==
  [game |-> game,
   stream |-> episode.stream,
   isMockMode |-> episode.isMockMode,
   agentA |-> agents["A"],
   agentB |-> agents["B"],
   replyA |-> replyA,
   replyB |-> replyB]

InitEpisode ==
  /\ \E apiKey \in ApiKeyInputs, r1 \in RngState, r2 \in RngNoise,
        r3 \in RngOpponent, r5 \in {0, 950} :
       /\ episode = [stream |-> <<r1, r2, r3, r3, r5, 500>>,
                     isMockMode |-> (apiKey = Undefined \/ apiKey = "mock")]
       /\ game = initializeGame(DefaultConfig, r1, r2, r3, r3)
  /\ \E karmaA \in EpisodeKarmaInputs, karmaB \in EpisodeKarmaInputs :
       agents = [A |-> setReputation(NewAgent("A", 50), karmaA),
                 B |-> setReputation(NewAgent("B", 50), karmaB)]
  /\ lastCall = [op |-> "constructor", arg |-> Undefined, thrown |-> NoError]
  /\ agentCall = Null
  /\ run = Null
  /\ snapshot = Null
  /\ twin = Null
  /\ LedgerUnused

EpisodeCall(op, result) ==
  /\ game' = result.game
  /\ lastCall' = [op |-> op, arg |-> Undefined, thrown |-> result.thrown]
  /\ UNCHANGED <<snapshot, twin, ledgerVars, runVars, agentVars>>

\* Phase 1: agentA.act, applyConsequences, game.setProposal
EpisodePropose ==
  /\ game.state.phase = PhaseProposal
  /\ \E replyA \in EpisodeProposalReplies :
       EpisodeCall("setProposal", ProposalPhase(EpisodeCtx(replyA, Undefined)))

\* Phase 2: agentB.act, applyConsequences, game.setReview
EpisodeReview ==
  /\ game.state.phase = PhaseReview
  /\ lastCall.thrown = NoError
  /\ \E replyB \in EpisodeReviewReplies :
       EpisodeCall("setReview",
                   ReviewPhase(EpisodeCtx(Undefined, replyB), [game |-> game]))

\* Phase 3: game.resolveExecution
EpisodeExecute ==
  /\ game.state.phase = PhaseExecution
  /\ lastCall.thrown = NoError
  /\ EpisodeCall("resolveExecution",
                 ExecutionPhase(EpisodeCtx(Undefined, Undefined), [game |-> game]))

NextEpisode == EpisodePropose \/ EpisodeReview \/ EpisodeExecute

SpecEpisode == InitEpisode /\ [][NextEpisode]_vars

----------------------------------------------------------------------------
(* Claims about the kernel, checked under Spec                              *)

PhaseSuccessor ==
  {<<PhaseProposal, PhaseReview>>, <<PhaseReview, PhaseExecution>>,
   <<PhaseExecution, PhaseEnd>>}

\* C1: the phase starts at Proposal and every change of it is one of
\* Proposal->Review, Review->Execution, Execution->End: no phase is skipped
\* and no earlier phase is re-entered, whatever calls are made.
C1_PhaseOrder ==
  /\ game.state.phase = PhaseProposal
  /\ [][\/ game'.state.phase = game.state.phase
        \/ <<game.state.phase, game'.state.phase>> \in PhaseSuccessor]_vars

\* C1 witness: a kernel that went through all phases and was then asked to
\* take a proposal again
C1_Witness ==
  /\ game.state.phase = PhaseEnd
  /\ lastCall.op = "setProposal"

\* the phase in which each transition is valid
ValidPhase(op) ==
  CASE op = "setProposal" -> PhaseProposal
    [] op = "setReview" -> PhaseReview
    [] op = "resolveExecution" -> PhaseExecution
    [] op = "endGame" -> PhaseEnd

Transitions == {"setProposal", "setReview", "resolveExecution", "endGame"}

\* C2: a transition called outside its phase throws an error that names the
\* current phase and leaves the kernel (phase, proposal, review action, final
\* protocol, beliefs, history, payoffs) exactly as it was.
C2_OutOfPhaseFails ==
  [][(lastCall'.op \in Transitions /\ game.state.phase # ValidPhase(lastCall'.op))
       => /\ lastCall'.thrown # NoError
          /\ lastCall'.thrown[2] = game.state.phase
          /\ game' = game]_vars

\* C2 witness: endGame was called on a kernel still waiting for execution
C2_Witness ==
  /\ lastCall.op = "endGame"
  /\ lastCall.thrown # NoError
  /\ game.state.phase = PhaseExecution

Roles == {"a", "b"}
Fields == {"own", "aboutOpponent"}

\* C4: in every state getState can show, each of the four belief pairs sums
\* to 1.
C4_BeliefsSumToOne ==
  \A role \in Roles, field \in Fields :
    Belief(game, role, field).safe + Belief(game, role, field).dangerous = One

\* C4 witness: after both updates, with the Reviewer's own pair at the upper clamp
C4_Witness ==
  /\ game.state.phase = PhaseEnd
  /\ Belief(game, "b", "own").safe = 990

\* C5: after a belief update both components of every belief pair lie in
\* [0.01, 0.99].
C5_BeliefsClamped ==
  game.state.phase # PhaseProposal =>
    \A role \in Roles, field \in Fields :
      /\ Belief(game, role, field).safe \in 10..990
      /\ Belief(game, role, field).dangerous \in 10..990

\* C5 witness: a proposal of Low took the Proposer's own pair to the clamp
C5_Witness ==
  /\ game.state.phase = PhaseReview
  /\ game.state.proposal = Low
  /\ Belief(game, "a", "own").safe = 990

\* C7: with noise amplitude 0 the payoffs are {2,2} on Reject, {10,10} for a
\* final protocol of Medium or High, {12,8} for Low in state SafeLow and
\* {-5,-5} for Low in state DangerousLow.
C7_PayoffsWithoutNoise ==
  (game.state.phase = PhaseEnd /\ game.config.payoffNoise = 0) =>
    game.state.payoffs =
      IF game.state.reviewAction = Reject THEN [a |-> 2, b |-> 2]
      ELSE IF game.state.finalProtocol \in {Medium, High} THEN [a |-> 10, b |-> 10]
      ELSE IF game.state.trueState = SafeLow THEN [a |-> 12, b |-> 8]
      ELSE [a |-> 0 - 5, b |-> 0 - 5]

\* C7 witness: a breach resolved without noise
C7_Witness ==
  /\ game.state.phase = PhaseEnd
  /\ game.config.payoffNoise = 0
  /\ game.state.finalProtocol = Low
  /\ game.state.trueState = DangerousLow

\* C8: after resolveExecution the final protocol is the proposal on Accept,
\* the named level on ModifyLow/ModifyMedium/ModifyHigh whatever was proposed,
\* and absent on Reject.
C8_FinalProtocol ==
  game.state.phase = PhaseEnd =>
    game.state.finalProtocol =
      CASE game.state.reviewAction = Accept -> game.state.proposal
        [] game.state.reviewAction = ModifyLow -> Low
        [] game.state.reviewAction = ModifyMedium -> Medium
        [] game.state.reviewAction = ModifyHigh -> High
        [] game.state.reviewAction = Reject -> Undefined

\* C8 witness: a proposal of High modified to Low
C8_Witness ==
  /\ game.state.phase = PhaseEnd
  /\ game.state.proposal = High
  /\ game.state.reviewAction = ModifyLow

\* C9: the belief nudge changes only the acting role's own pair: setProposal
\* leaves the Reviewer's own pair and both about-opponent pairs unchanged,
\* setReview leaves the Proposer's own pair and both about-opponent pairs
\* unchanged.
C9_NudgeOnlyActingRole ==
  [][/\ (lastCall'.op = "setProposal" /\ lastCall'.thrown = NoError)
          => /\ Belief(game', "b", "own") = Belief(game, "b", "own")
             /\ \A role \in Roles :
                  Belief(game', role, "aboutOpponent")
                    = Belief(game, role, "aboutOpponent")
     /\ (lastCall'.op = "setReview" /\ lastCall'.thrown = NoError)
          => /\ Belief(game', "a", "own") = Belief(game, "a", "own")
             /\ \A role \in Roles :
                  Belief(game', role, "aboutOpponent")
                    = Belief(game, role, "aboutOpponent")]_vars

\* C10: with review strength > 0, setReview(Accept) makes the Reviewer's own
\* SafeLow mass strictly greater than it was immediately before the call.
C10_AcceptRaisesSafeLow ==
  [][(/\ lastCall'.op = "setReview"
      /\ lastCall'.arg = Accept
      /\ lastCall'.thrown = NoError
      /\ game.config.beliefUpdateStrength.review > 0)
       => Belief(game', "b", "own").safe > Belief(game, "b", "own").safe]_vars

\* C11: with proposal strength > 0, setProposal(Low) makes the Proposer's own
\* SafeLow mass strictly greater than it was immediately before the call.
C11_ProposeLowRaisesSafeLow ==
  [][(/\ lastCall'.op = "setProposal"
      /\ lastCall'.arg = Low
      /\ lastCall'.thrown = NoError
      /\ game.config.beliefUpdateStrength.proposal > 0)
       => Belief(game', "a", "own").safe > Belief(game, "a", "own").safe]_vars

\* C11 witness: Low was proposed from the highest initial mass, 0.9, and the
\* Proposer's own SafeLow mass stands at the clamp
C11_Witness ==
  /\ lastCall.op = "setProposal"
  /\ lastCall.arg = Low
  /\ lastCall.thrown = NoError
  /\ game.config.beliefUpdateStrength.proposal > 0
  /\ game.config.initialBeliefAlignment = 900
  /\ Belief(game, "a", "own").safe = 990

\* the change d of the own SafeLow mass by the table of actions: s_p and s_r
\* are the proposal and review strengths of the configuration
TableChange(op, action, strength) ==
  IF op = "setProposal"
  THEN CASE action = Low -> strength.proposal
         [] action = High -> 0 - (strength.proposal \div 2)
         [] action = Medium -> 0
  ELSE CASE action = Accept -> strength.review
         [] action = Reject -> 0 - strength.review
         [] action \in {ModifyLow, ModifyMedium, ModifyHigh} -> 0

\* C30: after a successful setProposal or setReview the acting role's own
\* SafeLow mass is clamp(pre + d, 0.01, 0.99) and its DangerousLow mass is 1
\* minus that, d being +s_p for Low, -s_p/2 for High, 0 for Medium, +s_r for
\* Accept, -s_r for Reject and 0 for every Modify-* review.
C30_OwnMassAfterTransition ==
  [][(lastCall'.op \in {"setProposal", "setReview"} /\ lastCall'.thrown = NoError)
       => LET role == IF lastCall'.op = "setProposal" THEN "a" ELSE "b"
              d == TableChange(lastCall'.op, lastCall'.arg,
                               game.config.beliefUpdateStrength)
              pre == Belief(game, role, "own").safe
              post == Belief(game', role, "own")
          IN  /\ post.safe = Max(10, Min(990, pre + d))
              /\ post.dangerous = One - post.safe]_vars

\* C30 witness: High was proposed and then rejected at the default strengths
\* from a low mass, and the Reviewer's own pair stands at the clamp, 0.01/0.99
C30_Witness ==
  /\ lastCall.op = "setReview"
  /\ lastCall.arg = Reject
  /\ lastCall.thrown = NoError
  /\ game.state.proposal = High
  /\ game.config.beliefUpdateStrength = DefaultConfig.beliefUpdateStrength
  /\ Belief(game, "b", "own") = Pair(10, 990)

\* C31: immediately after construction the own pairs of the two roles are
\* equal, and the SafeLow mass of each of the four belief pairs lies in
\* [0.1, 0.9].
C31_InitialBeliefs ==
  lastCall.op = "constructor" =>
    /\ Belief(game, "a", "own") = Belief(game, "b", "own")
    /\ \A role \in {"a", "b"}, field \in {"own", "aboutOpponent"} :
         /\ Belief(game, role, field).safe >= 100
         /\ Belief(game, role, field).safe <= 900

\* C31 witness: a kernel just built with alignment 0.9 whose own and
\* about-opponent SafeLow masses both stand at the upper clamp
C31_Witness ==
  /\ lastCall.op = "constructor"
  /\ game.config.initialBeliefAlignment = 900
  /\ Belief(game, "a", "own").safe = 900
  /\ Belief(game, "b", "aboutOpponent").safe = 900

\* C32: the event log is append-only: a successful setProposal, setReview or
\* resolveExecution appends exactly one entry and keeps the earlier ones, a
\* failed call appends nothing, and in End the log holds exactly the proposal
\* entry, the review entry and the summary entry, in that order.
C32_LogAppendOnly ==
  /\ [](game.state.phase = PhaseEnd =>
          /\ Len(game.state.history) = 3
          /\ game.state.history[1] = <<"A proposed", game.state.proposal>>
          /\ game.state.history[2] = <<"B chose", game.state.reviewAction>>
          /\ game.state.history[3][1] = "Final protocol")
  /\ [][/\ (/\ lastCall'.op \in {"setProposal", "setReview", "resolveExecution"}
            /\ lastCall'.thrown = NoError)
             => /\ Len(game'.state.history) = Len(game.state.history) + 1
                /\ SubSeq(game'.state.history, 1, Len(game.state.history))
                     = game.state.history
        /\ (lastCall'.thrown # NoError
             => game'.state.history = game.state.history)]_vars

\* C32 witness: a finished game that was rejected, its summary entry saying
\* so, on which a further setReview has just failed
C32_Witness ==
  /\ game.state.phase = PhaseEnd
  /\ Len(game.state.history) = 3
  /\ game.state.history[3][2] = "rejected"
  /\ lastCall.op = "setReview"
  /\ lastCall.thrown # NoError

\* C34: in every kernel state with phase End the final protocol is absent
\* exactly when the review action is Reject; hence no finished game has the
\* review action Reject together with the final protocol Low.
C34_AbsentProtocolIffReject ==
  game.state.phase = PhaseEnd =>
    /\ (game.state.finalProtocol = Undefined) <=> (game.state.reviewAction = Reject)
    /\ ~(game.state.reviewAction = Reject /\ game.state.finalProtocol = Low)

\* C34 witness: a proposal of Low was rejected in the dangerous state and the
\* finished game has no final protocol
C34_Witness ==
  /\ game.state.phase = PhaseEnd
  /\ game.state.proposal = Low
  /\ game.state.trueState = DangerousLow
  /\ game.state.reviewAction = Reject
  /\ game.state.finalProtocol = Undefined

\* C24: in every kernel state payoffs is null in Proposal, Review and Execution
\* and not null in End; proposal is unset exactly in Proposal and the review
\* action exactly in Proposal and Review; once set, neither changes again.
C24_FieldsSetOnceInPhaseOrder ==
  /\ []((game.state.payoffs = Null) <=> (game.state.phase # PhaseEnd))
  /\ []((game.state.proposal = Undefined) <=> (game.state.phase = PhaseProposal))
  /\ []((game.state.reviewAction = Undefined)
          <=> (game.state.phase \in {PhaseProposal, PhaseReview}))
  /\ [][/\ (game.state.proposal # Undefined
              => game'.state.proposal = game.state.proposal)
        /\ (game.state.reviewAction # Undefined
              => game'.state.reviewAction = game.state.reviewAction)]_vars

\* C24 witness: a finished episode with its proposal, its review action and
\* its payoffs, after a call that came too late to change them
C24_Witness ==
  /\ game.state.phase = PhaseEnd
  /\ game.state.proposal = Low
  /\ game.state.reviewAction = ModifyHigh
  /\ game.state.payoffs # Null
  /\ lastCall.op = "setProposal"
  /\ lastCall.thrown # NoError

----------------------------------------------------------------------------
(* Claims about snapshots of the kernel, checked under SpecSnapshot         *)

\* the four belief pairs as read through a snapshot
SnapshotBeliefs(g, snap) ==
  [role \in Roles |->
     [field \in Fields |-> g.heap[snap.agentBeliefs[role][field]]]]

\* C25: a snapshot returned by getState is a defensive copy: no later kernel
\* transition changes any field of it, its nested belief pairs included.
C25_SnapshotIsDefensiveCopy ==
  [][(snapshot # Null /\ snapshot' = snapshot)
       => SnapshotBeliefs(game', snapshot') = SnapshotBeliefs(game, snapshot)]_vars

----------------------------------------------------------------------------
(* Claims about the single pass, checked under SpecRounds                   *)

\* how many of the three steps a phase has behind it
PhaseIndex(phase) ==
  IF phase = PhaseProposal THEN 0
  ELSE IF phase = PhaseReview THEN 1
  ELSE IF phase = PhaseExecution THEN 2
  ELSE 3

\* C28: whatever maxRounds is and whatever the review action is, the kernel
\* makes one pass: its history holds exactly the steps behind the current
\* phase (one proposal, then one review, then one resolution), no call moves
\* the phase backwards, and once in End no call changes the state again.
C28_SinglePass ==
  /\ [](/\ Len(game.state.history) = PhaseIndex(game.state.phase)
        /\ \A i \in 1 .. Len(game.state.history) :
             game.state.history[i][1] =
               <<"A proposed", "B chose", "Final protocol">>[i])
  /\ [][/\ PhaseIndex(game'.state.phase) >= PhaseIndex(game.state.phase)
        /\ (game.state.phase = PhaseEnd => game'.state = game.state)]_vars

\* a kernel with maxRounds 5 reached End after a Modify-* review, and a further
\* proposal was refused
C28_Witness ==
  /\ game.config.maxRounds = 5
  /\ game.state.phase = PhaseEnd
  /\ game.state.reviewAction = ModifyLow
  /\ lastCall.op = "setProposal"
  /\ lastCall.thrown # NoError

----------------------------------------------------------------------------
(* Claims about two kernels, checked under SpecTwin                         *)

\* C26: two kernels constructed with the same seed and the same configuration
\* have the same hidden state and the same initial values in all four belief
\* pairs.
C26_SameSeedSameStart ==
  (/\ lastCall.op = "constructor"
   /\ lastCall.arg[1] = lastCall.arg[2]
   /\ game.config = twin.config)
    => /\ game.state.trueState = twin.state.trueState
       /\ BeliefValues(game) = BeliefValues(twin)

\* C26 witness: two kernels built with no seed given, which therefore share
\* the seed 'default', in hidden state SafeLow with own SafeLow mass 0.79
C26_Witness ==
  /\ lastCall.op = "constructor"
  /\ lastCall.arg = <<Undefined, Undefined>>
  /\ game.state.trueState = SafeLow
  /\ twin.state.trueState = SafeLow
  /\ Belief(game, "a", "own").safe = 790
  /\ Belief(twin, "b", "own").safe = 790

\* what two episodes must share whatever their hidden states
Agree(g, t) ==
  /\ g.state.phase = t.state.phase
  /\ g.state.proposal = t.state.proposal
  /\ g.state.reviewAction = t.state.reviewAction
  /\ g.state.finalProtocol = t.state.finalProtocol
  /\ BeliefValues(g) = BeliefValues(t)

\* C27: the hidden state acts on an episode only through the initial belief
\* values: two episodes that agree on belief values, whatever their hidden
\* states, and receive the same action agree afterwards on proposal, review
\* action, final protocol, belief values and phase.
C27_HiddenStateNotObserved ==
  [][Agree(game, twin) => Agree(game', twin')]_vars

\* C27 witness: two finished episodes with different hidden states that went
\* through the same fields and beliefs and ended with different payoffs
C27_Witness ==
  /\ game.state.trueState # twin.state.trueState
  /\ Agree(game, twin)
  /\ game.state.phase = PhaseEnd
  /\ game.state.finalProtocol = Low
  /\ game.state.payoffs.a > 0
  /\ twin.state.payoffs.a < 0

----------------------------------------------------------------------------
(* Claims about the ledger, checked under SpecLedger                        *)

\* C6: for every policy and after any sequence of ledger operations the karma
\* that getModelReputation and exportReputations return lies in 0..100.
C6_KarmaBounded ==
  /\ \A modelId \in ModelIds :
       getModelReputation(models, modelId).karma \in 0..100
  /\ \A modelId \in DOMAIN exportReputations(models) :
       exportReputations(models)[modelId] \in 0..100

\* C6 witness: one policy was clamped at the top and another at the bottom
C6_Witness ==
  /\ DOMAIN models = ModelIds
  /\ models["model-A"].karma = 100
  /\ models[ProtoKey].karma = 0

\* C12: inspectAndUpdate on a finished episode whose review action is Reject
\* returns Reviewer delta +10 for (Low, DangerousLow), -5 for (Low, SafeLow)
\* and -2 for every other outcome, the one with no final protocol included.
C12_RejectReviewerDelta ==
  (/\ ledgerCall.op = "inspectAndUpdate"
   /\ ledgerCall.arg.payoffs # Null
   /\ ledgerCall.arg.reviewAction = Reject)
    => ledgerCall.value.b =
         IF ledgerCall.arg.finalProtocol = Low
              /\ ledgerCall.arg.trueState = DangerousLow THEN 10
         ELSE IF ledgerCall.arg.finalProtocol = Low
                   /\ ledgerCall.arg.trueState = SafeLow THEN 0 - 5
         ELSE 0 - 2

\* C13: inspectAndUpdate on a finished episode returns Proposer delta -20 for
\* final protocol Low in state DangerousLow, +5 for Low in SafeLow, +3 for
\* Medium or High, and 0 without a final protocol, whatever the review action.
C13_ProposerDelta ==
  (/\ ledgerCall.op = "inspectAndUpdate"
   /\ ledgerCall.arg.payoffs # Null)
    => ledgerCall.value.a =
         IF ledgerCall.arg.finalProtocol = Low
         THEN (IF ledgerCall.arg.trueState = DangerousLow THEN 0 - 20 ELSE 5)
         ELSE IF ledgerCall.arg.finalProtocol \in {Medium, High} THEN 3
         ELSE 0

\* C13 witness: a breach on Low was inspected with review action Reject and
\* the Proposer delta is -20
C13_Witness ==
  /\ ledgerCall.op = "inspectAndUpdate"
  /\ ledgerCall.arg.payoffs # Null
  /\ ledgerCall.arg.finalProtocol = Low
  /\ ledgerCall.arg.trueState = DangerousLow
  /\ ledgerCall.arg.reviewAction = Reject
  /\ ledgerCall.value.a = 0 - 20

\* C14: for an episode with a final protocol the Reviewer delta is the value of
\* the last matching rule, never a sum: Accept gives -15 for (Low,
\* DangerousLow), +5 for (Low, SafeLow), +3 for Medium or High; a Modify-*
\* review gives -10, +2 or +3 from the final-protocol rule alone.
C14_ReviewerLastRuleWins ==
  (/\ ledgerCall.op = "inspectAndUpdate"
   /\ ledgerCall.arg.payoffs # Null
   /\ ledgerCall.arg.finalProtocol # Undefined
   /\ ledgerCall.arg.reviewAction \in {Accept, ModifyLow, ModifyMedium, ModifyHigh})
    => ledgerCall.value.b =
         IF ledgerCall.arg.finalProtocol \in {Medium, High} THEN 3
         ELSE IF ledgerCall.arg.reviewAction = Accept
              THEN (IF ledgerCall.arg.trueState = DangerousLow THEN 0 - 15 ELSE 5)
              ELSE (IF ledgerCall.arg.trueState = DangerousLow THEN 0 - 10 ELSE 2)

\* C14 witness: a naive acceptance of a breach was inspected, Reviewer delta -15
C14_Witness ==
  /\ ledgerCall.op = "inspectAndUpdate"
  /\ ledgerCall.arg.payoffs # Null
  /\ ledgerCall.arg.finalProtocol = Low
  /\ ledgerCall.arg.trueState = DangerousLow
  /\ ledgerCall.arg.reviewAction = Accept
  /\ ledgerCall.value.b = 0 - 15

\* the values the rule table assigns to each role
ProposerRuleValues == {0 - 20, 0, 3, 5}
ReviewerRuleValues == {0 - 15, 0 - 10, 0 - 5, 0 - 2, 0, 2, 3, 5, 10}

\* C15: after inspectAndUpdate returns (dA, dB), the karma of model-A is
\* clamp(previous + dA, 0, 100) and that of model-B clamp(previous + dB, 0, 100),
\* previous being 50 for a policy not stored; the deltas returned are the
\* unclamped rule values.
C15_InspectAppliesClampedDeltas ==
  [][ledgerCall'.op = "inspectAndUpdate"
       => /\ getModelReputation(models', "model-A").karma =
               Max(0, Min(100, getModelReputation(models, "model-A").karma
                                 + ledgerCall'.value.a))
          /\ getModelReputation(models', "model-B").karma =
               Max(0, Min(100, getModelReputation(models, "model-B").karma
                                 + ledgerCall'.value.b))
          /\ ledgerCall'.value.a \in ProposerRuleValues
          /\ ledgerCall'.value.b \in ReviewerRuleValues]_vars

\* C15 witness: a delta of -20 was returned and the Proposer policy's karma is
\* held at 0 by the clamp, the Reviewer policy being stored for the first time
C15_Witness ==
  /\ ledgerCall.op = "inspectAndUpdate"
  /\ ledgerCall.value = [a |-> 0 - 20, b |-> 0 - 15]
  /\ "model-A" \in DOMAIN models
  /\ models["model-A"].karma = 0
  /\ models["model-B"].karma = 35

\* the policy -> karma mapping a ledger holds
KarmaMapping(m) == [id \in DOMAIN m |-> m[id].karma]

\* C21: in any ledger state, importReputations(exportReputations()) leaves the
\* policy -> karma mapping identical: the same policy ids with the same karma.
C21_ExportImportRoundTrip ==
  KarmaMapping(importReputations(models, exportReputations(models)))
    = KarmaMapping(models)

\* C22: importReputations does not fail on out-of-range integers: each value
\* is stored as clamp(value, 0, 100), and the import replaces the whole
\* mapping, so a policy absent from the imported data reads 50 afterwards.
C22_ImportClampsAndReplaces ==
  [][ledgerCall'.op = "importReputations"
       => /\ DOMAIN models' = DOMAIN ledgerCall'.arg
          /\ \A id \in DOMAIN ledgerCall'.arg :
               models'[id].karma =
                 IF ledgerCall'.arg[id] < 0 THEN 0
                 ELSE IF ledgerCall'.arg[id] > 100 THEN 100
                 ELSE ledgerCall'.arg[id]
          /\ \A id \in ModelIds \ DOMAIN ledgerCall'.arg :
               getModelReputation(models', id).karma = 50]_vars

\* C22 witness: after an earlier write, an import of 250 and -5 for two
\* policies left exactly those two, at 100 and 0
C22_Witness ==
  /\ ledgerCall.op = "importReputations"
  /\ ledgerOps = 2
  /\ ledgerCall.arg = ("model-A" :> 250) @@ (ProtoKey :> 0 - 5)
  /\ KarmaMapping(models) = ("model-A" :> 100) @@ (ProtoKey :> 0)
  /\ getModelReputation(models, "model-B").karma = 50

\* C23: reading the reputation or the consequences of a policy never written
\* returns karma 50 and the karma-50 consequences and does not add the policy:
\* the ledger and its exported mapping are the same before and after the read.
C23_ReadDoesNotPersist ==
  [][ledgerCall'.op = "read"
       => /\ KarmaMapping(models') = KarmaMapping(models)
          /\ exportReputations(models') = exportReputations(models)
          /\ (/\ ledgerCall'.arg[1] = "getModelReputation"
              /\ ledgerCall'.arg[2] \notin DOMAIN models)
               => ledgerCall'.value.karma = 50
          /\ (/\ ledgerCall'.arg[1] = "getConsequences"
              /\ ledgerCall'.arg[2] \notin DOMAIN models)
               => ledgerCall'.value = Consequences({}, 0, FALSE)]_vars

\* C23 witness: the consequences of model-B were read from a ledger that holds
\* another policy only, and model-B is still not stored
C23_Witness ==
  /\ ledgerCall.op = "read"
  /\ ledgerCall.arg = <<"getConsequences", "model-B">>
  /\ ledgerCall.value = Consequences({}, 0, FALSE)
  /\ DOMAIN models = {"model-A"}

\* outcomes that carry a payoff pair and differ from one another in every
\* field of an EpisodeResult that the rules could but do not read
OutcomesLike(ep) ==
  [finalProtocol : {ep.finalProtocol},
   trueState : {ep.trueState},
   reviewAction : {ep.reviewAction},
   payoffs : [a : {0 - 5, 2, 12}, b : {0 - 5, 8}],
   episodeId : {0, 7},
   history : {<<>>, <<"A proposed low">>},
   agentBeliefs : {UndefinedObject}]

\* C38: the deltas inspectAndUpdate returns depend only on the outcome's final
\* protocol, hidden state and review action: every outcome that carries a
\* payoff pair and agrees with the inspected one on these three yields the
\* same deltas, whatever its payoffs, history or episode id.
C38_DeltasDependOnThreeFields ==
  (ledgerCall.op = "inspectAndUpdate" /\ ledgerCall.arg.payoffs # Null)
    => \A other \in OutcomesLike(ledgerCall.arg) :
         inspectAndUpdate(EmptyModels, other).deltas = ledgerCall.value

\* C38 witness: an accepted Low in the dangerous state was inspected with the
\* payoffs 10/10 and scored -20/-15, as the same outcome is with payoffs 12/8
C38_Witness ==
  /\ ledgerCall.op = "inspectAndUpdate"
  /\ ledgerCall.arg = [finalProtocol |-> Low, trueState |-> DangerousLow,
                       reviewAction |-> Accept, payoffs |-> [a |-> 10, b |-> 10]]
  /\ ledgerCall.value = [a |-> 0 - 20, b |-> 0 - 15]
  /\ inspectAndUpdate(EmptyModels,
                      [finalProtocol |-> Low, trueState |-> DangerousLow,
                       reviewAction |-> Accept, payoffs |-> [a |-> 12, b |-> 8],
                       episodeId |-> 7, history |-> <<>>,
                       agentBeliefs |-> UndefinedObject]).deltas
       = [a |-> 0 - 20, b |-> 0 - 15]

\* a policy's entry is the same in both ledgers: stored in both or in neither
SameEntry(m1, m2, id) ==
  /\ (id \in DOMAIN m1) <=> (id \in DOMAIN m2)
  /\ id \in DOMAIN m1 => m1[id] = m2[id]

\* C39: ledger writes are isolated per policy: updateModel(p, d) leaves every
\* policy other than p as it was, and inspectAndUpdate changes no policy
\* other than model-A and model-B.
C39_WritesIsolatedPerPolicy ==
  [][/\ ledgerCall'.op = "updateModel"
          => \A id \in ModelIds \ {ledgerCall'.arg[1]} :
               SameEntry(models, models', id)
     /\ ledgerCall'.op = "inspectAndUpdate"
          => \A id \in ModelIds \ {"model-A", "model-B"} :
               SameEntry(models, models', id)]_vars

\* C39 witness: model-A was moved by updateModel while another policy, stored
\* at karma 57, stayed at 57
C39_Witness ==
  /\ ledgerCall.op = "updateModel"
  /\ ledgerCall.arg = <<"model-A", 0 - 20>>
  /\ DOMAIN models = {"model-A", ProtoKey}
  /\ models["model-A"].karma = 30
  /\ models[ProtoKey].karma = 57

----------------------------------------------------------------------------
(* Claims about the ledger's consequences, checked under SpecConsequences   *)

\* C16: getConsequences of the ledger depends only on the policy's karma:
\* below 20 it blocks Low with penalty 0.5 and auto-reject; from 20 to below 30
\* it blocks Low with penalty 0.3; from 30 to below 50 it blocks nothing with
\* penalty 0.1; from 50 on nothing, penalty 0; auto-reject only below 20.
C16_LedgerConsequenceTable ==
  (ledgerCall.op = "read" /\ ledgerCall.arg[1] = "getConsequences")
    => LET karma == getModelReputation(models, ledgerCall.arg[2]).karma
       IN  /\ karma \in 0..100
           /\ ledgerCall.value.blockedActions = (IF karma < 30 THEN {Low} ELSE {})
           /\ ledgerCall.value.autoReject = (karma < 20)
           /\ ledgerCall.value.payoffPenalty =
                CASE karma < 20 -> 500
                  [] karma >= 20 /\ karma < 30 -> 300
                  [] karma >= 30 /\ karma < 50 -> 100
                  [] karma >= 50 -> 0

\* C16 witness: the consequences of a policy stored with karma 20 were read
C16_Witness ==
  /\ ledgerCall.op = "read"
  /\ ledgerCall.arg = <<"getConsequences", "model-B">>
  /\ "model-B" \in DOMAIN models
  /\ models["model-B"].karma = 20
  /\ ledgerCall.value = Consequences({Low}, 300, FALSE)

\* what an Agent holds as consequences once its karma has been set
AgentView(karma) == AgentGetConsequences(setReputation(NewAgent("A", 50), karma))

\* what the ledger answers for a policy stored with the karma
LedgerView(karma) ==
  getConsequences(importReputations(EmptyModels, ("model-A" :> karma)), "model-A")

\* C33: the table embedded in Agent and the ledger's table agree for every
\* karma >= 50 and are not equivalent: for at least one karma in 0..49 they
\* differ in blocked actions, payoff penalty or auto-reject.
C33_TablesAgreeOnlyFromFifty ==
  /\ (ledgerCall.op = "read" /\ ledgerCall.arg[1] = "getConsequences")
       => LET karma == getModelReputation(models, ledgerCall.arg[2]).karma
          IN  karma >= 50 => ledgerCall.value = AgentView(karma)
  /\ \E karma \in 0 .. 49 :
       \/ LedgerView(karma).blockedActions # AgentView(karma).blockedActions
       \/ LedgerView(karma).payoffPenalty # AgentView(karma).payoffPenalty
       \/ LedgerView(karma).autoReject # AgentView(karma).autoReject

\* C33 witness: the ledger was read for a policy of karma 40 and answered a
\* penalty of 0.1 where an Agent of karma 40 holds 0.2
C33_Witness ==
  /\ ledgerCall.op = "read"
  /\ ledgerCall.arg = <<"getConsequences", "model-A">>
  /\ "model-A" \in DOMAIN models
  /\ models["model-A"].karma = 40
  /\ ledgerCall.value.payoffPenalty = 100
  /\ AgentView(40).payoffPenalty = 200

----------------------------------------------------------------------------
(* Claims about the agents, checked under SpecAgent                         *)

\* what the agent's own table gives for a karma; penalties in thousandths
AgentTable(karma) ==
  Consequences(IF karma < 30 THEN {Low} ELSE {},
               IF karma < 30 THEN 500 ELSE IF karma < 50 THEN 200 ELSE 0,
               FALSE)

\* C17: at every observation point of an Agent, right after construction with
\* any initialKarma included, getConsequences returns exactly what the agent's
\* consequence table gives for the karma getReputation returns.
C17_AgentConsequencesFollowKarma ==
  \A id \in AgentIds :
    AgentGetConsequences(agents[id]) = AgentTable(getReputation(agents[id]).karma)

\* a kernel in phase Proposal, for the proposal an agent hands on
ProposalKernel == initializeGame(DefaultConfig, 250, 500, 500, 500)

\* C18: applyConsequences returns Medium for an intended proposal in the
\* agent's blocked-actions set and the proposal itself otherwise; an agent set
\* to karma 25 that intends Low has Medium recorded as the kernel's proposal.
C18_BlockedProposalBecomesMedium ==
  /\ []((agentCall.op = "applyConsequences" /\ agentCall.arg \in ProtocolLevel)
          => agentCall.value =
               IF agentCall.arg \in
                    AgentGetConsequences(agents[agentCall.id]).blockedActions
               THEN Medium ELSE agentCall.arg)
  /\ [][(agentCall'.op = "setReputation" /\ agentCall'.arg = 25)
          => LET finalProposal == applyConsequences(agents'[agentCall'.id], Low)
             IN  /\ finalProposal = Medium
                 /\ setProposal(ProposalKernel, finalProposal).game.state.proposal
                      = Medium]_vars

\* C18 witness: the Proposer, at karma 25 with Low blocked, intended Low and
\* was answered Medium
C18_Witness ==
  /\ agentCall.op = "applyConsequences"
  /\ agentCall.id = "A"
  /\ agentCall.arg = Low
  /\ agentCall.value = Medium
  /\ getReputation(agents["A"]).karma = 25
  /\ Low \in AgentGetConsequences(agents["A"]).blockedActions

\* C19: applyConsequences replaces Accept by Reject exactly when the agent is
\* the Reviewer (id B) with karma below 20; the Proposer at any karma, a
\* Reviewer at karma 20 or more, and every other review action get the action
\* back unchanged.
C19_AutoRejectOnlyLowKarmaReviewer ==
  (agentCall.op = "applyConsequences" /\ agentCall.arg \in ReviewAction)
    => agentCall.value =
         IF /\ agentCall.arg = Accept
            /\ agentCall.id = "B"
            /\ getReputation(agents[agentCall.id]).karma < 20
         THEN Reject ELSE agentCall.arg

\* C19 witness: the Reviewer at karma 19 intended Accept and was answered Reject
C19_Witness ==
  /\ agentCall.op = "applyConsequences"
  /\ agentCall.id = "B"
  /\ agentCall.arg = Accept
  /\ agentCall.value = Reject
  /\ agents["B"] = setReputation(NewAgent("B", 50), 19)

\* payoff x (1 - p) rounded to the nearest integer, halves up; p in thousandths
PenalizedPayoff(payoff, p) == (2 * payoff * (One - p) + One) \div (2 * One)

\* C20: in reputation mode the payoff recorded for each agent is
\* round(kernel payoff x (1 - p)) with p that agent's own payoff penalty, each
\* agent on its own; in baseline mode the recorded payoffs are the kernel's.
C20_RecordedPayoffs ==
  agentCall.op = "finalPayoffs"
    => agentCall.value =
         IF agentCall.arg.useReputation
         THEN [a |-> PenalizedPayoff(agentCall.arg.payoffs.a,
                       AgentGetConsequences(agents["A"]).payoffPenalty),
               b |-> PenalizedPayoff(agentCall.arg.payoffs.b,
                       AgentGetConsequences(agents["B"]).payoffPenalty)]
         ELSE agentCall.arg.payoffs

\* C20 witness: a breach of -5 each is recorded as -2 for the Proposer at
\* penalty 0.5 and as -4 for the Reviewer at penalty 0.2
C20_Witness ==
  /\ agentCall.op = "finalPayoffs"
  /\ agentCall.arg = [useReputation |-> TRUE, payoffs |-> [a |-> 0 - 5, b |-> 0 - 5]]
  /\ AgentGetConsequences(agents["A"]).payoffPenalty = 500
  /\ AgentGetConsequences(agents["B"]).payoffPenalty = 200
  /\ agentCall.value = [a |-> 0 - 2, b |-> 0 - 4]

\* C36: the payoff penalty never raises a payoff: for every integer payoff,
\* breach payoffs below zero included, and every karma in 0..100,
\* applyPayoffPenalty(payoff) is at most payoff.
C36_PenaltyNeverRaises ==
  (agentCall.op = "applyPayoffPenalty"
     /\ getReputation(agents[agentCall.id]).karma \in 0 .. 100)
    => agentCall.value <= agentCall.arg

----------------------------------------------------------------------------
(* Claims about one episode, checked under SpecEpisode                      *)

\* C35: when Low is in the Proposer's blocked actions at the time it proposes,
\* the finished episode's final protocol is never Low, whatever the Reviewer
\* chooses.
C35_BlockedLowNeverFinal ==
  (game.state.phase = PhaseEnd
     /\ Low \in AgentGetConsequences(agents["A"]).blockedActions)
    => game.state.finalProtocol # Low

\* C37: with the rule-based policy deciding for both roles and both karmas at
\* 50 or more, the Reviewer's recorded action is Accept for every initial
\* belief, so the final protocol is the proposal and the episode ends neither
\* in Reject nor in a Modify-* outcome.
C37_MockReviewerAccepts ==
  (/\ episode.isMockMode
   /\ getReputation(agents["A"]).karma >= 50
   /\ getReputation(agents["B"]).karma >= 50
   /\ game.state.phase \in {PhaseExecution, PhaseEnd})
    => /\ game.state.reviewAction = Accept
       /\ (game.state.phase = PhaseEnd
             => game.state.finalProtocol = game.state.proposal)

\* C37 witness: a rule-based episode that began with own SafeLow mass 0.2,
\* proposed High, was accepted and ended on High, the mass standing at 0.25
\* after the two nudges
C37_Witness ==
  /\ episode.isMockMode
  /\ getReputation(agents["A"]).karma = 50
  /\ getReputation(agents["B"]).karma = 50
  /\ game.state.phase = PhaseEnd
  /\ game.state.proposal = High
  /\ game.state.reviewAction = Accept
  /\ game.state.finalProtocol = High
  /\ Belief(game, "a", "own").safe = 250

----------------------------------------------------------------------------
(* Claims about the run, checked under SpecRun                              *)

\* karma 50 updated by the clamped deltas of the given results, in order
RECURSIVE KarmaAfter(_, _, _)
KarmaAfter(karma, results, who) ==
  IF results = <<>> THEN karma
  ELSE KarmaAfter(Max(0, Min(100, karma + results[1].reputationDeltas[who])),
                  Tail(results), who)

\* C3: in reputation mode, with episodes run in order, the karma episode N
\* reads for each policy at its start is 50 updated by exactly the clamped
\* deltas inspect produced for episodes 0..N-1.
C3_KarmaCarriedAcrossEpisodes ==
  (episode # Null /\ episode.useReputation /\ episode.agentA # Null) =>
    LET earlier == SelectSeq(run.reputationResults,
                             LAMBDA r : r.episodeId < episode.episodeId)
    IN  /\ episode.agentA.reputation.karma = KarmaAfter(50, earlier, "a")
        /\ episode.agentB.reputation.karma = KarmaAfter(50, earlier, "b")

----------------------------------------------------------------------------
(* Claims about failed episodes, checked under SpecRun                      *)

\* the episode indices of an arm whose failure the catch block logged
FailedIds(arm) ==
  {run.errors[k].episodeId :
     k \in {j \in 1 .. Len(run.errors) : run.errors[j].arm = arm}}

\* the episode indices an arm's loop has been through
AttemptedIds(arm) ==
  IF run.arm = arm THEN 0 .. (run.i - 1)
  ELSE IF arm = "baseline" \/ run.arm = "done" THEN 0 .. (run.numEpisodes - 1)
  ELSE {}

ResultIds(results) == {results[k].episodeId : k \in 1 .. Len(results)}

\* an arm's results list holds, once each, exactly the attempted episodes that
\* did not fail
HoldsCompleted(results, arm) ==
  /\ ResultIds(results) = AttemptedIds(arm) \ FailedIds(arm)
  /\ Len(results) = Cardinality(ResultIds(results))

\* how far runABTest has come: the arm, then the index within the arm
RunRank(r) ==
  (IF r.arm = "baseline" THEN 0 ELSE IF r.arm = "reputation" THEN 1 ELSE 2)
     * (r.numEpisodes + 1) + r.i

\* C29: an episode of runABTest that throws is left out of its arm's results
\* list and the loop goes on with the next index; the run is never stopped
\* short of its end (every step, a failed episode included, moves it forward
\* and leaves the loop index within its range); and totalEpisodes of each arm
\* is the number of its episodes that did not throw.
C29_FailedEpisodesSkipped ==
  /\ [](/\ HoldsCompleted(run.baselineResults, "baseline")
        /\ HoldsCompleted(run.reputationResults, "reputation")
        /\ (run.arm = "done" =>
              /\ run.metrics.baseline.totalEpisodes =
                   run.numEpisodes - Cardinality(FailedIds("baseline"))
              /\ run.metrics.withReputation.totalEpisodes =
                   run.numEpisodes - Cardinality(FailedIds("reputation"))))
  /\ [](run.arm # "done" => run.i \in 0 .. run.numEpisodes)
  /\ [][/\ (Len(run'.errors) > Len(run.errors)
              => (run'.i = run.i + 1 /\ run'.arm = run.arm))
        /\ RunRank(run') > RunRank(run)]_vars

\* a finished run whose baseline episode 0 and reputation episode 1 threw: each
\* arm counts one episode fewer, the baseline list starts at episode 1
C29_Witness ==
  /\ run.arm = "done"
  /\ FailedIds("baseline") = {0}
  /\ FailedIds("reputation") = {1}
  /\ run.baselineResults[1].episodeId = 1
  /\ run.metrics.baseline.totalEpisodes = run.numEpisodes - 1
  /\ run.metrics.withReputation.totalEpisodes = run.numEpisodes - 1

====
